---- MODULE Spec2Model ----
(***************************************************************************)
(* A model of kube-ingress-aws-controller: the CloudFormation stack        *)
(* wrapper (Stack.IsComplete / ShouldDelete / Err, deleteStack), the stack *)
(* tags (createStack, isManagedStack, mapToManagedStack,                   *)
(* findManagedStacks) and the Kubernetes adapter (newIngress,              *)
(* ListResources, UpdateIngressLoadBalancer).                              *)
(*                                                                         *)
(* The module holds one specification per component.  Every specification  *)
(* leaves the variables of the other components at their idle values.      *)
(***************************************************************************)
EXTENDS Integers, Sequences, FiniteSets, TLC

VARIABLES
    now,        \* the wall clock read by time.Now(), in ticks after the zero instant
    stack,      \* the *Stack the methods are called on
    res,        \* the last method call on the stack and what it returned
    cfProt,     \* CloudFormation: stack name -> termination protection enabled
    cfLive,     \* CloudFormation: stack name -> the stack exists
    call,       \* the last stack operation: the requests it sent, what it returned
    adapter,    \* the Adapter: its configuration, routeGroupSupport, extraCNIEndpoints
    kube,       \* the Ingress and RouteGroup objects the Kubernetes API holds
    listed,     \* the last ListResources call: its requests and what it returned
    upd,        \* the last UpdateIngressLoadBalancer call
    lastUpd,    \* per resource, the UpdateIngressLoadBalancer call before the last one
    stale,      \* the resources whose listed record is older than their last update
    norm,       \* the last newIngress call: its arguments and what it returned
    cfStacks,   \* CloudFormation: the pages of stacks DescribeStacksPages returns
    found       \* the last createStack, mapToManagedStack or findManagedStacks call

stackVars == <<now, stack, res>>
cfVars == <<cfProt, cfLive, call>>
adapterVars == <<adapter, kube, listed, upd, lastUpd, stale, norm>>
tagVars == <<cfStacks, found>>
vars == <<now, stack, res, cfProt, cfLive, call,
          adapter, kube, listed, upd, lastUpd, stale, norm, cfStacks, found>>
\* what the actions of one component leave alone
notStackVars == <<cfVars, adapterVars, tagVars>>
notCFVars == <<stackVars, adapterVars, tagVars>>
notAdapterVars == <<stackVars, cfVars, tagVars>>
notTagVars == <<stackVars, cfVars, adapterVars>>

(***************************************************************************)
(* Bounds.                                                                 *)
(***************************************************************************)
\* instants are 0..MaxTime; 0 is the zero instant time.Time{}
MaxTime == 3
\* certificate ARNs are 1..MaxARNs
MaxARNs == 2
\* stack names are 1..MaxStacks
MaxStacks == 2
\* an extra-listeners annotation lists at most MaxListeners listeners
MaxListeners == 2
\* the API holds at most MaxItems Ingress and MaxItems RouteGroup objects
MaxItems == 2
\* the ticks stop when extraCNIEndpoints would exceed MaxEndpoints entries
MaxEndpoints == 4

Nil == "nil"

(***************************************************************************)
(* Stack (the wrapper around a CloudFormation stack).                      *)
(***************************************************************************)
ZeroTime == 0
Times == 0..MaxTime
ARNs == 1..MaxARNs

\* cloudformation.StackStatus* of the AWS SDK, and one string that is none of them
StackStatuses ==
    { "CREATE_IN_PROGRESS", "CREATE_FAILED", "CREATE_COMPLETE",
      "ROLLBACK_IN_PROGRESS", "ROLLBACK_FAILED", "ROLLBACK_COMPLETE",
      "DELETE_IN_PROGRESS", "DELETE_FAILED", "DELETE_COMPLETE",
      "UPDATE_IN_PROGRESS", "UPDATE_COMPLETE_CLEANUP_IN_PROGRESS",
      "UPDATE_COMPLETE", "UPDATE_FAILED", "UPDATE_ROLLBACK_IN_PROGRESS",
      "UPDATE_ROLLBACK_FAILED", "UPDATE_ROLLBACK_COMPLETE_CLEANUP_IN_PROGRESS",
      "UPDATE_ROLLBACK_COMPLETE", "REVIEW_IN_PROGRESS",
      "IMPORT_IN_PROGRESS", "IMPORT_COMPLETE", "IMPORT_ROLLBACK_IN_PROGRESS",
      "IMPORT_ROLLBACK_FAILED", "IMPORT_ROLLBACK_COMPLETE", "" }

StatusReasons == { "", "resource creation cancelled" }

\* map[string]time.Time: a function from some of the ARNs to instants
CertificateMaps == UNION { [D -> Times] : D \in SUBSET ARNs }

\* a *Stack: nil, or a stack with its status, reason and certificate TTLs
NilStack == [nil |-> TRUE, status |-> "", statusReason |-> "",
             CertificateARNs |-> <<>>]

Stacks ==
    [nil : {FALSE}, status : StackStatuses, statusReason : StatusReasons,
     CertificateARNs : CertificateMaps]

IsZero(t) == t = ZeroTime

After(t, u) == t > u

\* IsComplete as it would be if the rollback states were left out
IsComplete_NoRollback(s) ==
    IF s.nil THEN FALSE
    ELSE s.status \in { "CREATE_COMPLETE", "UPDATE_COMPLETE" }

\* Stack.IsComplete
IsComplete(s) ==
    IF s.nil THEN FALSE
    ELSE IF s.status \in { "CREATE_COMPLETE", "UPDATE_COMPLETE",
                           "ROLLBACK_COMPLETE", "UPDATE_ROLLBACK_COMPLETE" }
         THEN TRUE
         ELSE FALSE

\* ShouldDelete as it would be without the IsZero test
ShouldDelete_NoZeroTest(s, t) ==
    IF s.nil THEN FALSE
    ELSE ~ \E a \in DOMAIN s.CertificateARNs : After(s.CertificateARNs[a], t)

\* ShouldDelete as it would be if a TTL of exactly now still counted as valid
ShouldDelete_NotBefore(s, t) ==
    IF s.nil THEN FALSE
    ELSE ~ \E a \in DOMAIN s.CertificateARNs :
             IsZero(s.CertificateARNs[a]) \/ ~ After(t, s.CertificateARNs[a])

\* Stack.ShouldDelete, with t the value of time.Now()
ShouldDelete(s, t) ==
    IF s.nil THEN FALSE
    ELSE IF \E a \in DOMAIN s.CertificateARNs :
              IsZero(s.CertificateARNs[a]) \/ After(s.CertificateARNs[a], t)
         THEN FALSE
         ELSE TRUE

\* the error values Stack.Err builds with fmt.Errorf
StackErr(status, reason) == [status |-> status, reason |-> reason]

NoErr == [status |-> Nil, reason |-> Nil]

\* Err as it would be if every *_IN_PROGRESS and *_COMPLETE status were accepted
Err_BySuffix(s) ==
    IF s.nil THEN NoErr
    ELSE IF s.status \in { "CREATE_IN_PROGRESS", "CREATE_COMPLETE",
                           "UPDATE_IN_PROGRESS", "UPDATE_COMPLETE",
                           "UPDATE_COMPLETE_CLEANUP_IN_PROGRESS",
                           "DELETE_IN_PROGRESS", "DELETE_COMPLETE",
                           "ROLLBACK_IN_PROGRESS", "ROLLBACK_COMPLETE" }
         THEN NoErr
         ELSE StackErr(s.status, s.statusReason)

\* Err as it would be with UPDATE_COMPLETE missing from the accepted states
Err_NoUpdateComplete(s) ==
    IF s.nil THEN NoErr
    ELSE IF s.status \in { "CREATE_IN_PROGRESS", "CREATE_COMPLETE",
                           "UPDATE_IN_PROGRESS",
                           "UPDATE_COMPLETE_CLEANUP_IN_PROGRESS",
                           "DELETE_IN_PROGRESS", "DELETE_COMPLETE" }
         THEN NoErr
         ELSE StackErr(s.status, s.statusReason)

\* Stack.Err
Err(s) ==
    IF s.nil THEN NoErr
    ELSE IF s.status \in { "CREATE_IN_PROGRESS", "CREATE_COMPLETE",
                           "UPDATE_IN_PROGRESS", "UPDATE_COMPLETE",
                           "UPDATE_COMPLETE_CLEANUP_IN_PROGRESS",
                           "DELETE_IN_PROGRESS", "DELETE_COMPLETE" }
         THEN NoErr
         ELSE IF s.statusReason # ""
              THEN StackErr(s.status, s.statusReason)
              ELSE StackErr(s.status, "")

NoCall == [op |-> "none", at |-> 0, bool |-> FALSE, err |-> NoErr]

StackInit ==
    /\ now = 1
    /\ stack \in Stacks \cup {NilStack}
    /\ res = NoCall

StackIdle ==
    /\ now = 1
    /\ stack = NilStack
    /\ res = NoCall

\* the clock advances; the stack and its tags stay as they are
Tick ==
    /\ now < MaxTime
    /\ now' = now + 1
    /\ UNCHANGED <<stack, res>>
    /\ UNCHANGED notStackVars

CallIsComplete ==
    /\ res' = [op |-> "IsComplete", at |-> now, bool |-> IsComplete(stack),
               err |-> NoErr]
    /\ UNCHANGED <<now, stack>>
    /\ UNCHANGED notStackVars

CallShouldDelete ==
    /\ res' = [op |-> "ShouldDelete", at |-> now,
               bool |-> ShouldDelete(stack, now), err |-> NoErr]
    /\ UNCHANGED <<now, stack>>
    /\ UNCHANGED notStackVars

CallErr ==
    /\ res' = [op |-> "Err", at |-> now, bool |-> FALSE, err |-> Err(stack)]
    /\ UNCHANGED <<now, stack>>
    /\ UNCHANGED notStackVars

(***************************************************************************)
(* CloudFormation stack operations.                                        *)
(***************************************************************************)
StackNames == 1..MaxStacks

\* errors the CloudFormation API may answer with
ApiErrors == { "AccessDenied", "Throttling" }

UTPRequest(name, enable, err) ==
    [api |-> "UpdateTerminationProtection", StackName |-> name,
     EnableTerminationProtection |-> enable, err |-> err]

DeleteStackRequest(name, err) ==
    [api |-> "DeleteStack", StackName |-> name, err |-> err]

NoOp == [op |-> "none", name |-> 0, requests |-> <<>>, ret |-> Nil]

CFInit ==
    /\ cfProt \in [StackNames -> BOOLEAN]
    /\ cfLive \in [StackNames -> BOOLEAN]
    /\ call = NoOp

CFIdle ==
    /\ cfProt = [n \in StackNames |-> FALSE]
    /\ cfLive = [n \in StackNames |-> FALSE]
    /\ call = NoOp

\* deleteStack as it would be if the error of UpdateTerminationProtection were dropped
deleteStack_IgnoreError(stackName, utpErr, delErr) ==
    /\ call' = [op |-> "deleteStack", name |-> stackName,
                requests |-> << UTPRequest(stackName, FALSE, utpErr),
                                DeleteStackRequest(stackName, delErr) >>,
                ret |-> delErr]
    /\ cfProt' = IF utpErr = Nil THEN [cfProt EXCEPT ![stackName] = FALSE]
                 ELSE cfProt
    /\ cfLive' = IF delErr = Nil THEN [cfLive EXCEPT ![stackName] = FALSE]
                 ELSE cfLive

\* deleteStack(svc, stackName); utpErr and delErr are the answers of the API
deleteStack(stackName, utpErr, delErr) ==
    IF utpErr # Nil
    THEN /\ call' = [op |-> "deleteStack", name |-> stackName,
                     requests |-> << UTPRequest(stackName, FALSE, utpErr) >>,
                     ret |-> utpErr]
         /\ UNCHANGED <<cfProt, cfLive>>
    ELSE /\ call' = [op |-> "deleteStack", name |-> stackName,
                     requests |-> << UTPRequest(stackName, FALSE, Nil),
                                     DeleteStackRequest(stackName, delErr) >>,
                     ret |-> delErr]
         /\ cfProt' = [cfProt EXCEPT ![stackName] = FALSE]
         /\ cfLive' = IF delErr = Nil
                      THEN [cfLive EXCEPT ![stackName] = FALSE]
                      ELSE cfLive

DoDeleteStack ==
    \E stackName \in StackNames, utpErr \in ApiErrors \cup {Nil},
       delErr \in ApiErrors \cup {Nil} :
        \* the API refuses to change a stack that does not exist
        /\ ~cfLive[stackName] => utpErr # Nil
        /\ deleteStack(stackName, utpErr, delErr)
        /\ cfStacks' = IF utpErr = Nil /\ delErr = Nil
                       THEN [p \in DOMAIN cfStacks |->
                               SelectSeq(cfStacks[p],
                                   LAMBDA s : s.StackName # ToString(stackName))]
                       ELSE cfStacks
        /\ UNCHANGED found
        /\ UNCHANGED <<stackVars, adapterVars>>

(***************************************************************************)
(* The Kubernetes adapter: normalisation of one object (newIngress).       *)
(***************************************************************************)
\* IngressType
TypeIngress == "ingress"
TypeRouteGroup == "routegroup"

DefaultClusterLocalDomain == ".cluster.local"
loadBalancerTypeNLB == "nlb"
loadBalancerTypeALB == "alb"

\* the names the aws package gives the load balancer and address types
LoadBalancerTypeApplication == "application"
LoadBalancerTypeNetwork == "network"
IPAddressTypeIPV4 == "ipv4"
IPAddressTypeDualstack == "dualstack"

\* elbv2.LoadBalancerSchemeEnum*
LoadBalancerSchemeEnumInternal == "internal"
LoadBalancerSchemeEnumInternetFacing == "internet-facing"

\* the result of a Go map lookup: the value (the zero value when absent) and ok
Lookup(m, key) == IF key \in DOMAIN m THEN [ok |-> TRUE, val |-> m[key]]
                  ELSE [ok |-> FALSE, val |-> ""]

loadBalancerTypesIngressToAWS ==
    [alb |-> LoadBalancerTypeApplication, nlb |-> LoadBalancerTypeNetwork]

loadBalancerTypesAWSToIngress ==
    [application |-> loadBalancerTypeALB, network |-> loadBalancerTypeNLB]

\* aws.SSLPolicies: the names of the SSL policies the controller knows
SSLPolicies == { "ELBSecurityPolicy-2016-08", "ELBSecurityPolicy-TLS-1-2-2017-01" }

\* the annotations newIngress and the class filter read
AnnotationKeys ==
    { "ingressSchemeAnnotation", "ingressSharedAnnotation",
      "ingressALBIPAddressType", "ingressSSLPolicyAnnotation",
      "ingressLoadBalancerTypeAnnotation", "ingressSecurityGroupAnnotation",
      "ingressWAFWebACLIDAnnotation", "ingressHTTP2Annotation",
      "ingressCertificateARNAnnotation", "ingressClassAnnotation",
      "ingressNLBExtraListenersAnnotation" }

\* an absent annotation, and an annotation with a value
Absent == [ok |-> FALSE, val |-> ""]
Present(v) == [ok |-> TRUE, val |-> v]

\* the text of an aws-nlb-extra-listeners annotation: a JSON list of
\* listener objects, or a text that is no JSON list
JSONList(items) == [valid |-> TRUE, list |-> TRUE, items |-> items]
NotJSON == [valid |-> FALSE, list |-> FALSE, items |-> <<>>]

\* the JSON text null: no list, and json.Unmarshal leaves the slice nil
\* and answers no error
JSONNull == [valid |-> TRUE, list |-> FALSE, items |-> <<>>]

\* json.Unmarshal into []aws.ExtraListener
Unmarshal(raw) ==
    IF raw.valid
    THEN [err |-> FALSE,
          listeners |-> [i \in DOMAIN raw.items |->
                            [ListenProtocol |-> raw.items[i].protocol,
                             ListenPort |-> raw.items[i].listenport,
                             TargetPort |-> raw.items[i].targetport,
                             PodLabel |-> raw.items[i].podlabel,
                             Namespace |-> ""]]]
    ELSE [err |-> TRUE, listeners |-> <<>>]

\* getAnnotationsString: annotations maps every key to its lookup result
getAnnotationsString(annotations, key, defaultValue) ==
    IF annotations[key].ok THEN annotations[key].val ELSE defaultValue

\* getIngressClassName
getIngressClassName(spec, defaultValue) ==
    IF spec.IngressClassName # "" THEN spec.IngressClassName ELSE defaultValue

CNIEndpoint(ns, podlabel) == [Namespace |-> ns, Podlabel |-> podlabel]

\* the error values of the kubernetes package; NoError is a nil error
NoError == [msg |-> Nil, cause |-> Nil]
Error(msg) == [msg |-> msg, cause |-> Nil]
\* fmt.Errorf("...: %w", err)
Wrap(msg, err) == [msg |-> msg, cause |-> err.msg]
\* errors.Is
Is(err, target) == err.msg = target.msg \/ err.cause = target.msg

ErrInvalidIngressUpdateParams == Error("invalid ingress update parameters")
ErrUpdateNotNeeded == Error("update to ingress resource not needed")
ErrResourceNotFound == Error("resource not found")
ErrNoPermissionToAccessResource == Error("no permission to access resource")
ErrExtraListenersNotNLB == Error("extra listeners are only supported on NLBs")
ErrExtraListenersParse == Error("unable to parse aws-nlb-extra-listeners annotation")
ErrExtraListenersProtocol ==
    Error("only TCP, UDP, or TCP_UDP are allowed as protocols for extra listeners")
ErrNLBSecurityGroupOrWAF ==
    Error("security group or WAF are not supported by NLB (configured by annotation)")

\* a nil *Ingress
NilIngress == [nil |-> TRUE]

\* FirstBadListener as it would be if only the first listener were checked
FirstBadListener_HeadOnly(listeners) ==
    IF listeners # <<>> /\ listeners[1].ListenProtocol \notin { "TCP", "UDP", "TCP_UDP" }
    THEN 1 ELSE 0

\* the index of the first listener whose protocol is not allowed, 0 if none
FirstBadListener(listeners) ==
    LET bad == { i \in DOMAIN listeners :
                    /\ listeners[i].ListenProtocol # "TCP"
                    /\ listeners[i].ListenProtocol # "UDP"
                    /\ listeners[i].ListenProtocol # "TCP_UDP" }
    IN IF bad = {} THEN 0 ELSE CHOOSE i \in bad : \A j \in bad : i <= j

\* the lookup in loadBalancerTypesIngressToAWS the way newIngress ends:
\* an unknown type falls back to the default, and the internal name is the
\* map's value ("" for a type the map does not hold)
ConvertLoadBalancerType(loadBalancerType, default) ==
    LET t == IF Lookup(loadBalancerTypesIngressToAWS, loadBalancerType).ok
             THEN loadBalancerType ELSE default
    IN Lookup(loadBalancerTypesIngressToAWS, t).val

\* the load balancer type before validation: the annotation, else alb for an
\* internal scheme, else the controller default
ChooseLoadBalancerType(annotations, scheme, default) ==
    IF annotations["ingressLoadBalancerTypeAnnotation"].ok
    THEN annotations["ingressLoadBalancerTypeAnnotation"].val
    ELSE IF scheme = LoadBalancerSchemeEnumInternal
         THEN loadBalancerTypeALB
         ELSE default

\* an NLB is never demoted
FallBackToALB_Never(loadBalancerType, hasSG, hasWAF) == loadBalancerType

\* an NLB is demoted whether or not the object names a security group or WAF
FallBackToALB_Always(loadBalancerType, hasSG, hasWAF) ==
    IF loadBalancerType = loadBalancerTypeNLB
    THEN loadBalancerTypeALB ELSE loadBalancerType

\* an NLB chosen by default falls back to ALB when a security group or a WAF
\* is set by annotation
FallBackToALB(loadBalancerType, hasSG, hasWAF) ==
    IF loadBalancerType = loadBalancerTypeNLB /\ (hasSG \/ hasWAF)
    THEN loadBalancerTypeALB ELSE loadBalancerType

\* newIngress without its last step: the annotation's address type is kept
EnsureIPv4_Keep(awsType, ipAddressType) == ipAddressType

\* ensure ipv4 for network load balancers
EnsureIPv4(awsType, ipAddressType) ==
    IF awsType = LoadBalancerTypeNetwork THEN IPAddressTypeIPV4
    ELSE ipAddressType

\* Adapter.newIngress: the error, the record and the adapter's
\* extraCNIEndpoints after the call
newIngress(ad, typ, metadata, host, hostnames) ==
    LET annotations == metadata.Annotations
        scheme ==
            IF getAnnotationsString(annotations, "ingressSchemeAnnotation", "")
                  = LoadBalancerSchemeEnumInternal
            THEN LoadBalancerSchemeEnumInternal
            ELSE LoadBalancerSchemeEnumInternetFacing
        shared ==
            getAnnotationsString(annotations, "ingressSharedAnnotation", "") # "false"
        ipAddressType ==
            IF getAnnotationsString(annotations, "ingressALBIPAddressType", "")
                  = IPAddressTypeDualstack
            THEN IPAddressTypeDualstack ELSE IPAddressTypeIPV4
        sslPolicyGiven ==
            getAnnotationsString(annotations, "ingressSSLPolicyAnnotation",
                                 ad.ingressDefaultSSLPolicy)
        sslPolicy == IF sslPolicyGiven \in SSLPolicies THEN sslPolicyGiven
                     ELSE ad.ingressDefaultSSLPolicy
        hasLB == annotations["ingressLoadBalancerTypeAnnotation"].ok
        loadBalancerType ==
            ChooseLoadBalancerType(annotations, scheme,
                                   ad.ingressDefaultLoadBalancerType)
        hasSG == annotations["ingressSecurityGroupAnnotation"].ok
        securityGroup ==
            IF hasSG THEN annotations["ingressSecurityGroupAnnotation"].val
            ELSE ad.ingressDefaultSecurityGroup
        hasWAF == annotations["ingressWAFWebACLIDAnnotation"].ok
        wafWebAclId == annotations["ingressWAFWebACLIDAnnotation"].val
        hasExtraListeners == annotations["ingressNLBExtraListenersAnnotation"].ok
        rawlisteners == annotations["ingressNLBExtraListenersAnnotation"].val
        parsed == IF hasExtraListeners THEN Unmarshal(rawlisteners)
                  ELSE [err |-> FALSE, listeners |-> <<>>]
        firstBad == FirstBadListener(parsed.listeners)
        \* the listeners the loop went through before it returned or ended
        done == IF firstBad = 0 THEN Len(parsed.listeners) ELSE firstBad - 1
        extraListeners ==
            [i \in DOMAIN parsed.listeners |->
                [parsed.listeners[i] EXCEPT !.Namespace = metadata.Namespace]]
        endpoints ==
            ad.extraCNIEndpoints \o
            [i \in 1..done |->
                CNIEndpoint(metadata.Namespace, parsed.listeners[i].PodLabel)]
        demoted == FallBackToALB(loadBalancerType, hasSG, hasWAF)
        awsType == ConvertLoadBalancerType(demoted, ad.ingressDefaultLoadBalancerType)
        failure(err, eps) ==
            [err |-> err, ing |-> NilIngress, extraCNIEndpoints |-> eps]
    IN
    IF hasExtraListeners /\ loadBalancerType # loadBalancerTypeNLB
    THEN failure(ErrExtraListenersNotNLB, ad.extraCNIEndpoints)
    ELSE IF hasExtraListeners /\ parsed.err
    THEN failure(ErrExtraListenersParse, ad.extraCNIEndpoints)
    ELSE IF hasExtraListeners /\ firstBad # 0
    THEN failure(ErrExtraListenersProtocol, endpoints)
    ELSE IF loadBalancerType = loadBalancerTypeNLB /\ (hasSG \/ hasWAF) /\ hasLB
    THEN failure(ErrNLBSecurityGroupOrWAF, endpoints)
    ELSE
    [err |-> NoError,
     ing |-> [nil |-> FALSE,
              ResourceType |-> typ,
              Namespace |-> metadata.Namespace,
              Name |-> metadata.Name,
              Hostname |-> host,
              Hostnames |-> hostnames,
              ClusterLocal |-> Len(hostnames) < 1,
              CertificateARN |->
                  getAnnotationsString(annotations,
                                       "ingressCertificateARNAnnotation", ""),
              Scheme |-> scheme,
              Shared |-> shared,
              SecurityGroup |-> securityGroup,
              SSLPolicy |-> sslPolicy,
              IPAddressType |-> EnsureIPv4(awsType, ipAddressType),
              LoadBalancerType |-> awsType,
              WAFWebACLID |-> wafWebAclId,
              HTTP2 |->
                  getAnnotationsString(annotations, "ingressHTTP2Annotation", "")
                      # "false",
              ExtraListeners |-> extraListeners],
     extraCNIEndpoints |-> endpoints]

(***************************************************************************)
(* The Kubernetes adapter: listing and status write-back.                  *)
(***************************************************************************)
\* the hostname of the first load balancer of a status that has one
FirstHostname(status) ==
    LET set == { i \in DOMAIN status : status[i] # "" }
    IN IF set = {} THEN ""
       ELSE status[CHOOSE i \in set : \A j \in set : i <= j]

\* a routing host: a name and the domain it ends with
Host(name, domain) == [name |-> name, domain |-> domain]

\* strings.HasSuffix of a routing host and a domain
HasSuffix(host, domain) == host.domain = domain

\* the routing hosts that are not empty and not cluster-local, in order
ExternalHosts(ad, hosts) ==
    SelectSeq(hosts,
              LAMBDA h : /\ h # Host("", "")
                         /\ (ad.clusterLocalDomain = ""
                               \/ ~HasSuffix(h, ad.clusterLocalDomain)))

\* Adapter.newIngressFromKube
newIngressFromKube(ad, kubeIngress) ==
    newIngress(ad, TypeIngress, kubeIngress.Metadata,
               FirstHostname(kubeIngress.Status),
               ExternalHosts(ad, kubeIngress.Spec.Rules))

\* Adapter.newIngressFromRouteGroup
newIngressFromRouteGroup(ad, rg) ==
    newIngress(ad, TypeRouteGroup, rg.Metadata, FirstHostname(rg.Status),
               ExternalHosts(ad, rg.Spec.Hosts))

\* Adapter.supportedIngressClass
supportedIngressClass(ad, ingressClass) ==
    \E i \in DOMAIN ad.ingressFilters : ad.ingressFilters[i] = ingressClass

\* Adapter.supportedCRD
supportedCRD(ad, metadata) ==
    IF Len(ad.ingressFilters) = 0 THEN TRUE
    ELSE supportedIngressClass(
             ad, getAnnotationsString(metadata.Annotations,
                                      "ingressClassAnnotation", ""))

\* the class of an Ingress is read from the deprecated annotation only
supportedIngress_AnnotationOnly(ad, ingress) == supportedCRD(ad, ingress.Metadata)

\* Adapter.supportedIngress
supportedIngress(ad, ingress) ==
    IF Len(ad.ingressFilters) = 0 THEN TRUE
    ELSE LET ingressClass == getIngressClassName(ingress.Spec, "")
         IN supportedIngressClass(
                ad, IF ingressClass = ""
                    THEN getAnnotationsString(ingress.Metadata.Annotations,
                                              "ingressClassAnnotation", "")
                    ELSE ingressClass)

\* the one element of a set of one element; a value bound by { ... : x \in {e} }
\* is computed once
The(S) == CHOOSE x \in S : TRUE

\* the loop of ListIngress and ListRoutegroups over the items from item i on:
\* the records so far and the adapter's extraCNIEndpoints
RECURSIVE ListItems(_, _, _, _, _)
\* the loop ends at the first object whose normalisation fails
ListItems_StopAtFailure(ad, typ, items, i, ret) ==
    IF i > Len(items) THEN [ret |-> ret, extraCNIEndpoints |-> ad.extraCNIEndpoints]
    ELSE IF ~(IF typ = TypeIngress THEN supportedIngress(ad, items[i])
              ELSE supportedCRD(ad, items[i].Metadata))
    THEN ListItems(ad, typ, items, i + 1, ret)
    ELSE The({ IF r.err # NoError
               THEN [ret |-> ret, extraCNIEndpoints |-> r.extraCNIEndpoints]
               ELSE ListItems([ad EXCEPT !.extraCNIEndpoints = r.extraCNIEndpoints],
                              typ, items, i + 1, Append(ret, r.ing)) :
               r \in { IF typ = TypeIngress THEN newIngressFromKube(ad, items[i])
                       ELSE newIngressFromRouteGroup(ad, items[i]) } })

ListItems(ad, typ, items, i, ret) ==
    IF i > Len(items) THEN [ret |-> ret, extraCNIEndpoints |-> ad.extraCNIEndpoints]
    ELSE IF ~(IF typ = TypeIngress THEN supportedIngress(ad, items[i])
              ELSE supportedCRD(ad, items[i].Metadata))
    THEN ListItems(ad, typ, items, i + 1, ret)
    ELSE The({ The({ ListItems(next, typ, items, i + 1,
                               IF r.err = NoError THEN Append(ret, r.ing) ELSE ret) :
                     next \in { [ad EXCEPT !.extraCNIEndpoints =
                                              r.extraCNIEndpoints] } }) :
               r \in { IF typ = TypeIngress THEN newIngressFromKube(ad, items[i])
                       ELSE newIngressFromRouteGroup(ad, items[i]) } })

\* Adapter.ListIngress; apiErr is the answer of the API to the listing
ListIngress(ad, items, apiErr) ==
    IF apiErr # NoError
    THEN [err |-> Wrap("failed to get ingress list", apiErr), ret |-> <<>>,
          extraCNIEndpoints |-> ad.extraCNIEndpoints]
    ELSE LET r == ListItems(ad, TypeIngress, items, 1, <<>>)
         IN [err |-> NoError, ret |-> r.ret,
             extraCNIEndpoints |-> r.extraCNIEndpoints]

\* Adapter.ListRoutegroups; apiErr is the answer of the API to the listing
ListRoutegroups(ad, items, apiErr) ==
    IF apiErr # NoError
    THEN [err |-> apiErr, ret |-> <<>>,
          extraCNIEndpoints |-> ad.extraCNIEndpoints]
    ELSE LET r == ListItems(ad, TypeRouteGroup, items, 1, <<>>)
         IN [err |-> NoError, ret |-> r.ret,
             extraCNIEndpoints |-> r.extraCNIEndpoints]

\* a listing request and the answer of the API
ListRequest(api, err) == [api |-> api, err |-> err]

\* ListResources lists the RouteGroups whatever the flag says
routeGroupSupport_Always(ad) == TRUE

\* the test of the Adapter's routeGroupSupport flag in ListResources
routeGroupSupport(ad) == ad.routeGroupSupport

\* only a resource that is not found disables the RouteGroup support
DisablesRouteGroups_NotFoundOnly(err) == Is(err, ErrResourceNotFound)

\* the errors of the RouteGroup listing that disable the RouteGroup support
DisablesRouteGroups(err) ==
    Is(err, ErrResourceNotFound) \/ Is(err, ErrNoPermissionToAccessResource)

\* the return of ListResources after its ListIngress returned ings
ListResourcesAfter(ad, ings, ingErr, rgErr) ==
    IF ings.err # NoError
    THEN [requests |-> << ListRequest("ingresses", ingErr) >>,
          err |-> ings.err, ret |-> <<>>, adapter |-> ad]
    ELSE IF ~routeGroupSupport(ad)
    THEN [requests |-> << ListRequest("ingresses", ingErr) >>,
          err |-> NoError, ret |-> ings.ret,
          adapter |-> [ad EXCEPT !.extraCNIEndpoints = ings.extraCNIEndpoints]]
    ELSE The({
        LET ad2 == [ad EXCEPT !.extraCNIEndpoints = rgs.extraCNIEndpoints]
            both == << ListRequest("ingresses", ingErr),
                       ListRequest("routegroups", rgErr) >>
        IN
        IF rgs.err = NoError
        THEN [requests |-> both, err |-> NoError, ret |-> ings.ret \o rgs.ret,
              adapter |-> ad2]
        ELSE IF DisablesRouteGroups(rgs.err)
        THEN [requests |-> both, err |-> NoError, ret |-> ings.ret,
              adapter |-> [ad2 EXCEPT !.routeGroupSupport = FALSE]]
        ELSE [requests |-> both, err |-> rgs.err, ret |-> <<>>, adapter |-> ad2] :
        rgs \in { ListRoutegroups(
                      [ad EXCEPT !.extraCNIEndpoints = ings.extraCNIEndpoints],
                      kube.routegroups, rgErr) } })

\* Adapter.ListResources: the requests sent, the error and records returned,
\* and the adapter after the call; ingErr and rgErr are the answers of the API
ListResources(ad, ingErr, rgErr) ==
    The({ ListResourcesAfter(ad, ings, ingErr, rgErr) :
          ings \in { ListIngress(ad, kube.ingresses, ingErr) } })

\* the identity of the Kubernetes object behind a record
KeyOf(ingress) == << ingress.ResourceType, ingress.Namespace, ingress.Name >>

\* a PATCH of the status of the object ns/name of a list: the load balancer
\* list of its status becomes the one hostname
PatchStatus(items, ns, name, newHostName) ==
    [i \in DOMAIN items |->
        IF items[i].Metadata.Namespace = ns /\ items[i].Metadata.Name = name
        THEN [items[i] EXCEPT !.Status = << newHostName >>]
        ELSE items[i]]

\* the hostname written as it would be if the sentinel were written as it is
HostnameToWrite_AsGiven(loadBalancerDNSName) == loadBalancerDNSName

\* the hostname that UpdateIngressLoadBalancer writes for a DNS name: the
\* cluster-local sentinel is written as the empty hostname
HostnameToWrite(loadBalancerDNSName) ==
    IF loadBalancerDNSName = DefaultClusterLocalDomain THEN ""
    ELSE loadBalancerDNSName

\* the write-back never finds the hostname already there
UpdateNotNeeded_Never(ingress, hostname) == FALSE

\* the record already holds the hostname to write
UpdateNotNeeded(ingress, hostname) == ingress.Hostname = hostname

\* Adapter.UpdateIngressLoadBalancer: the error returned, whether a PATCH was
\* sent and with which hostname, and the objects after it; patchErr is the
\* answer of the API to the PATCH
UpdateIngressLoadBalancer(ingress, loadBalancerDNSName, patchErr) ==
    LET hostname == HostnameToWrite(loadBalancerDNSName)
        none(err) == [err |-> err, patch |-> FALSE, hostname |-> "", kube |-> kube]
    IN
    IF ingress.nil \/ loadBalancerDNSName = ""
    THEN none(ErrInvalidIngressUpdateParams)
    ELSE IF UpdateNotNeeded(ingress, hostname)
    THEN none(ErrUpdateNotNeeded)
    ELSE IF ingress.ResourceType = TypeRouteGroup
    THEN [err |-> patchErr, patch |-> TRUE, hostname |-> hostname,
          kube |-> IF patchErr # NoError THEN kube
                   ELSE [kube EXCEPT !.routegroups =
                            PatchStatus(@, ingress.Namespace, ingress.Name,
                                        hostname)]]
    ELSE IF ingress.ResourceType = TypeIngress
    THEN [err |-> IF patchErr # NoError
                  THEN Wrap("failed to patch ingress", patchErr) ELSE NoError,
          patch |-> TRUE, hostname |-> hostname,
          kube |-> IF patchErr # NoError THEN kube
                   ELSE [kube EXCEPT !.ingresses =
                            PatchStatus(@, ingress.Namespace, ingress.Name,
                                        hostname)]]
    ELSE none(Error("unknown resourceType, failed to update Kubernetes resource"))

(***************************************************************************)
(* The adapter's state, its inputs and its operations.                     *)
(***************************************************************************)
Namespaces == { "default" }
ItemNames == 1..MaxItems

\* NewAdapter: the Adapter for a configuration
NewAdapter(ingressClassFilters, ingressDefaultSecurityGroup, ingressDefaultSSLPolicy, ingressDefaultLoadBalancerType, clusterLocalDomain) ==
    [ingressFilters |-> ingressClassFilters,
     ingressDefaultSecurityGroup |-> ingressDefaultSecurityGroup,
     ingressDefaultSSLPolicy |-> ingressDefaultSSLPolicy,
     ingressDefaultLoadBalancerType |->
         Lookup(loadBalancerTypesAWSToIngress, ingressDefaultLoadBalancerType).val,
     clusterLocalDomain |-> clusterLocalDomain,
     routeGroupSupport |-> TRUE,
     extraCNIEndpoints |-> <<>>]

\* the listeners an aws-nlb-extra-listeners annotation may name
ListenerObjects ==
    [protocol : { "TCP", "UDP", "TCP_UDP", "HTTP" }, listenport : { 22 },
     targetport : { 2222 }, podlabel : { "application=ssh-service" }]

ListenerLists == UNION { [1..n -> ListenerObjects] : n \in 0..MaxListeners }

\* the annotations that decide the load balancer of an object
PolicyAnnotations ==
    [ingressSchemeAnnotation : { Absent, Present("internal") },
     ingressALBIPAddressType : { Absent, Present("dualstack") },
     ingressLoadBalancerTypeAnnotation :
         { Absent, Present("nlb"), Present("alb"), Present("clb") },
     ingressSecurityGroupAnnotation : { Absent, Present("sg-custom") },
     ingressWAFWebACLIDAnnotation : { Absent, Present("abc") },
     ingressNLBExtraListenersAnnotation :
         { Absent, Present(NotJSON), Present(JSONNull) } \cup
         { Present(JSONList(l)) : l \in ListenerLists }]

\* the rest of an object: its kind, its other annotations (none of them, all
\* of them, values that are not understood), its status hostname and hosts
ObjectRests ==
    { [typ |-> TypeIngress, host |-> "", hostnames |-> <<>>,
       annotations |->
           [ingressSharedAnnotation |-> Absent,
            ingressSSLPolicyAnnotation |-> Absent,
            ingressHTTP2Annotation |-> Absent,
            ingressCertificateARNAnnotation |-> Absent,
            ingressClassAnnotation |-> Absent]],
      [typ |-> TypeRouteGroup, host |-> "x.elb",
       hostnames |-> << [name |-> "foo", domain |-> ".bar.org"] >>,
       annotations |->
           [ingressSharedAnnotation |-> Present("false"),
            ingressSSLPolicyAnnotation |->
                Present("ELBSecurityPolicy-TLS-1-2-2017-01"),
            ingressHTTP2Annotation |-> Present("false"),
            ingressCertificateARNAnnotation |-> Present("arn:aws:acm:cert"),
            ingressClassAnnotation |-> Present("skipper")]],
      [typ |-> TypeIngress, host |-> "x.elb",
       hostnames |-> << [name |-> "foo", domain |-> ".bar.org"] >>,
       annotations |->
           [ingressSharedAnnotation |-> Present("true"),
            ingressSSLPolicyAnnotation |-> Present("no-such-policy"),
            ingressHTTP2Annotation |-> Present("true"),
            ingressCertificateARNAnnotation |-> Absent,
            ingressClassAnnotation |-> Absent]] }

NoAnnotations == [k \in AnnotationKeys |-> Absent]

\* kubeItemMetadata
Metadata(ns, name, annotations) ==
    [Namespace |-> ns, Name |-> name, Annotations |-> annotations]

NoNorm == [op |-> "none"]

\* the load balancer stacks' DNS names handed to the status write-back
DNSNames == { "", "x.elb", "y.elb", DefaultClusterLocalDomain }

\* what the status of an object holds before the controller writes it
StatusValues == { <<>>, << "", "x.elb" >>, << DefaultClusterLocalDomain >> }

\* errors the Kubernetes API may answer a listing or a PATCH with
ErrInternal == Error("internal server error")
ListErrors == { ErrResourceNotFound, ErrNoPermissionToAccessResource, ErrInternal }
PatchErrors == { ErrInternal }

\* an Ingress object and a RouteGroup object of the API
KubeIngress(metadata, status) ==
    [Metadata |-> metadata,
     Spec |-> [Rules |-> << Host("foo", ".bar.org") >>, IngressClassName |-> ""],
     Status |-> status]

KubeRouteGroup(metadata, status) ==
    [Metadata |-> metadata,
     Spec |-> [Hosts |-> << Host("foo", ".bar.org") >>],
     Status |-> status]

\* an object that asks for an NLB with one extra listener
NLBWithListener ==
    [NoAnnotations EXCEPT
        !["ingressLoadBalancerTypeAnnotation"] = Present("nlb"),
        !["ingressNLBExtraListenersAnnotation"] =
            Present(JSONList(<< [protocol |-> "TCP", listenport |-> 22,
                                 targetport |-> 2222,
                                 podlabel |-> "application=ssh-service"] >>))]

\* the annotations of the objects that are listed: none; an NLB with one
\* extra listener; an ALB with an extra listener, which newIngress rejects
ListedAnnotations ==
    { NoAnnotations, NLBWithListener,
      [NLBWithListener EXCEPT
          !["ingressLoadBalancerTypeAnnotation"] = Present("alb")] }

\* the lists of n objects named 1..n
IngressLists(n, annotations, statuses) ==
    { [i \in 1..n |-> KubeIngress(Metadata("default", i, f[i].ann), f[i].st)] :
          f \in [1..n -> [ann : annotations, st : statuses]] }

RouteGroupLists(n, annotations, statuses) ==
    { [i \in 1..n |-> KubeRouteGroup(Metadata("default", i, f[i].ann), f[i].st)] :
          f \in [1..n -> [ann : annotations, st : statuses]] }

ResourceKeys == { TypeIngress, TypeRouteGroup } \X Namespaces \X ItemNames

NoKey == << "", "", 0 >>
NoPrev == [dns |-> "", patched |-> FALSE]
NoList == [op |-> "none", entered |-> TRUE, before |-> <<>>, requests |-> <<>>,
           err |-> NoError, ret |-> <<>>]
NoUpdate == [op |-> "none"]

DefaultAdapter ==
    NewAdapter(<<>>, "", "ELBSecurityPolicy-2016-08", LoadBalancerTypeApplication,
               DefaultClusterLocalDomain)

AdapterIdle ==
    /\ adapter = DefaultAdapter
    /\ kube = [ingresses |-> <<>>, routegroups |-> <<>>]
    /\ listed = NoList
    /\ upd = NoUpdate
    /\ lastUpd = [k \in ResourceKeys |-> NoPrev]
    /\ stale = {}
    /\ norm = NoNorm

\* one object is normalised by an adapter of any default configuration
NormalizeInit ==
    /\ adapter \in { NewAdapter(<<>>, sg, "ELBSecurityPolicy-2016-08", lb, "") :
                  sg \in { "", "sg-default" },
                  lb \in { LoadBalancerTypeApplication, LoadBalancerTypeNetwork,
                           "classic" } }
    /\ kube = [ingresses |-> <<>>, routegroups |-> <<>>]
    /\ listed = NoList
    /\ upd = NoUpdate
    /\ lastUpd = [k \in ResourceKeys |-> NoPrev]
    /\ stale = {}
    /\ norm = NoNorm

\* the API holds up to MaxItems objects of each kind, none with a status
ListInit ==
    /\ adapter = DefaultAdapter
    /\ kube \in
          [ingresses :
               UNION { IngressLists(n, ListedAnnotations, { <<>> }) :
                          n \in 0..MaxItems },
           routegroups :
               UNION { RouteGroupLists(n, { NoAnnotations, NLBWithListener },
                                       { <<>> }) :
                          n \in 0..MaxItems }]
    /\ listed = NoList
    /\ upd = NoUpdate
    /\ lastUpd = [k \in ResourceKeys |-> NoPrev]
    /\ stale = {}
    /\ norm = NoNorm

\* the API holds one object, an Ingress or a RouteGroup, with any status
WriteBackInit ==
    /\ adapter = DefaultAdapter
    /\ kube \in
          [ingresses : IngressLists(1, { NoAnnotations }, StatusValues),
           routegroups : { <<>> }] \cup
          [ingresses : { <<>> },
           routegroups : RouteGroupLists(1, { NoAnnotations }, StatusValues)]
    /\ listed = NoList
    /\ upd = NoUpdate
    /\ lastUpd = [k \in ResourceKeys |-> NoPrev]
    /\ stale = {}
    /\ norm = NoNorm

\* an NLB whose second extra listener has a protocol that is not allowed: the
\* first listener's endpoint is recorded before newIngress fails
NLBWithBadListener ==
    [NoAnnotations EXCEPT
        !["ingressLoadBalancerTypeAnnotation"] = Present("nlb"),
        !["ingressNLBExtraListenersAnnotation"] =
            Present(JSONList(<< [protocol |-> "TCP", listenport |-> 22,
                                 targetport |-> 2222,
                                 podlabel |-> "application=ssh-service"],
                                [protocol |-> "HTTP", listenport |-> 22,
                                 targetport |-> 2222,
                                 podlabel |-> "application=ssh-service"] >>))]

\* the --ingress-class-filter settings and the classes objects name
ClassFilters == { <<>>, << "skipper" >>, << "skipper", "internal" >> }
ClassAnnotations == { Absent, Present("skipper") }
IngressClassNames == { "", "skipper", "other" }

\* the objects of a filtered listing: they normalise or fail, and name a class
\* by annotation and, for an Ingress, by spec.ingressClassName
FilteredAnnotations ==
    { [a EXCEPT !["ingressClassAnnotation"] = c] :
          a \in { NoAnnotations, NLBWithListener, NLBWithBadListener },
          c \in ClassAnnotations }

FilteredIngressLists(n) ==
    { [i \in 1..n |->
          [KubeIngress(Metadata("default", i, f[i].ann), <<>>)
              EXCEPT !.Spec.IngressClassName = f[i].class]] :
          f \in [1..n -> [ann : FilteredAnnotations, class : IngressClassNames]] }

\* an adapter with any class filter; the API holds up to MaxItems objects of
\* one kind
FilterInit ==
    /\ adapter \in { NewAdapter(filters, "", "ELBSecurityPolicy-2016-08",
                                 LoadBalancerTypeApplication, "") :
                         filters \in ClassFilters }
    /\ kube \in
          [ingresses : UNION { FilteredIngressLists(n) : n \in 0..MaxItems },
           routegroups : { <<>> }] \cup
          [ingresses : { <<>> },
           routegroups :
               UNION { RouteGroupLists(n, FilteredAnnotations, { <<>> }) :
                          n \in 0..MaxItems }]
    /\ listed = NoList
    /\ upd = NoUpdate
    /\ lastUpd = [k \in ResourceKeys |-> NoPrev]
    /\ stale = {}
    /\ norm = NoNorm

\* ListIngress is called on the objects the API returns
DoListIngress ==
    /\ listed.op = "none"
    /\ \E apiErr \in { NoError, ErrInternal } :
        LET r == ListIngress(adapter, kube.ingresses, apiErr) IN
        /\ adapter' = [adapter EXCEPT !.extraCNIEndpoints = r.extraCNIEndpoints]
        /\ listed' = [op |-> "ListIngress", entered |-> adapter.routeGroupSupport,
                      before |-> adapter.extraCNIEndpoints,
                      requests |-> << ListRequest("ingresses", apiErr) >>,
                      err |-> r.err, ret |-> r.ret]
        /\ UNCHANGED <<kube, upd, lastUpd, stale, norm>>
        /\ UNCHANGED notAdapterVars

\* ListRoutegroups is called on the objects the API returns
DoListRoutegroups ==
    /\ listed.op = "none"
    /\ \E apiErr \in { NoError, ErrInternal } :
        LET r == ListRoutegroups(adapter, kube.routegroups, apiErr) IN
        /\ adapter' = [adapter EXCEPT !.extraCNIEndpoints = r.extraCNIEndpoints]
        /\ listed' = [op |-> "ListRoutegroups", entered |-> adapter.routeGroupSupport,
                      before |-> adapter.extraCNIEndpoints,
                      requests |-> << ListRequest("routegroups", apiErr) >>,
                      err |-> r.err, ret |-> r.ret]
        /\ UNCHANGED <<kube, upd, lastUpd, stale, norm>>
        /\ UNCHANGED notAdapterVars

\* newIngress is called on an object: every combination of annotations
DoNewIngress ==
    /\ norm.op = "none"
    /\ \E policy \in PolicyAnnotations, rest \in ObjectRests :
        LET metadata == Metadata("default", 1, policy @@ rest.annotations)
            r == newIngress(adapter, rest.typ, metadata, rest.host, rest.hostnames)
        IN
        /\ norm' = [op |-> "newIngress", typ |-> rest.typ, metadata |-> metadata,
                    host |-> rest.host, hostnames |-> rest.hostnames,
                    before |-> adapter.extraCNIEndpoints, err |-> r.err,
                    ing |-> r.ing]
        /\ adapter' = [adapter EXCEPT !.extraCNIEndpoints = r.extraCNIEndpoints]
        /\ UNCHANGED <<kube, listed, upd, lastUpd, stale>>
        /\ UNCHANGED notAdapterVars

\* one tick lists the resources
DoListResources ==
    \E ingErr \in ListErrors \cup {NoError}, rgErr \in ListErrors \cup {NoError} :
        LET r == ListResources(adapter, ingErr, rgErr) IN
        /\ Len(r.adapter.extraCNIEndpoints) <= MaxEndpoints
        /\ adapter' = r.adapter
        /\ listed' = [op |-> "ListResources", entered |-> adapter.routeGroupSupport,
                      before |-> adapter.extraCNIEndpoints, requests |-> r.requests,
                      err |-> r.err, ret |-> r.ret]
        /\ stale' = {}
        /\ UNCHANGED <<kube, upd, lastUpd, norm>>
        /\ UNCHANGED notAdapterVars

\* the status of a listed record (or of no record) is written back
DoUpdateIngressLoadBalancer ==
    \E ingress \in { listed.ret[i] : i \in DOMAIN listed.ret } \cup { NilIngress },
       loadBalancerDNSName \in DNSNames, patchErr \in PatchErrors \cup {NoError} :
        LET r == UpdateIngressLoadBalancer(ingress, loadBalancerDNSName, patchErr)
            key == IF ingress.nil THEN NoKey ELSE KeyOf(ingress)
        IN
        /\ kube' = r.kube
        /\ upd' = [op |-> "UpdateIngressLoadBalancer", nil |-> ingress.nil,
                   key |-> key, dns |-> loadBalancerDNSName,
                   observed |-> IF ingress.nil THEN "" ELSE ingress.Hostname,
                   err |-> r.err, patch |-> r.patch, hostname |-> r.hostname,
                   fresh |-> key \notin stale,
                   prev |-> IF ingress.nil THEN NoPrev ELSE lastUpd[key]]
        /\ lastUpd' = IF ingress.nil THEN lastUpd
                      ELSE [lastUpd EXCEPT ![key] =
                               [dns |-> loadBalancerDNSName,
                                patched |-> r.patch /\ r.err = NoError]]
        /\ stale' = IF ingress.nil THEN stale ELSE stale \cup { key }
        /\ UNCHANGED <<adapter, listed, norm>>
        /\ UNCHANGED notAdapterVars

(***************************************************************************)
(* The stack tags: isManagedStack, mapToManagedStack, findManagedStacks.   *)
(***************************************************************************)
\* a Go string that the code joins or cuts is a sequence of pieces: "" is
\* <<>> and + is \o
Str(piece) == << piece >>

\* strings.HasPrefix and strings.TrimPrefix
HasPrefix(s, prefix) ==
    Len(s) >= Len(prefix) /\ SubSeq(s, 1, Len(prefix)) = prefix

TrimPrefix(s, prefix) ==
    IF HasPrefix(s, prefix) THEN SubSeq(s, Len(prefix) + 1, Len(s)) ELSE s

certificateARNTagLegacy == << "ingress:certificate-arn" >>
certificateARNTagPrefix == << "ingress:certificate-arn", "/" >>
ingressOwnerTag == << "ingress:owner" >>
cwAlarmConfigHashTag == << "cloudwatch:alarm-config-hash" >>
extraListenersTag == << "ingress:extra-listeners" >>

\* the tags that mark a stack as managed by a controller of a cluster
kubernetesCreatorTag == << "kubernetes:application" >>
clusterIDTagPrefix == << "kubernetes.io/cluster", "/" >>
resourceLifecycleOwned == << "owned" >>
clusterIDTag == << "KubernetesCluster" >>

\* an instant is a number of ticks after the zero instant; a text in the
\* layout time.RFC3339 holds whole seconds
TicksPerSecond == 2
Seconds == 0..(MaxTime \div TicksPerSecond)

\* the RFC3339 text of a number of seconds
RFC3339Text(sec) == << "0001-01-01T00:00:", ToString(sec), "Z" >>

\* time.Time.Format(time.RFC3339)
Format(t) == RFC3339Text(t \div TicksPerSecond)

\* time.Parse(time.RFC3339, value)
Parse(value) ==
    IF \E sec \in Seconds : value = RFC3339Text(sec)
    THEN [err |-> FALSE,
          time |-> TicksPerSecond *
                     (CHOOSE sec \in Seconds : value = RFC3339Text(sec))]
    ELSE [err |-> TRUE, time |-> ZeroTime]

\* json.Marshal of []ExtraListener: podlabel is left out when empty, and
\* Namespace goes under its field name
Marshal(listeners) ==
    [i \in DOMAIN listeners |->
        [protocol |-> listeners[i].ListenProtocol,
         listenport |-> listeners[i].ListenPort,
         targetport |-> listeners[i].TargetPort,
         podlabel |-> IF listeners[i].PodLabel = "" THEN Absent
                      ELSE Present(listeners[i].PodLabel),
         Namespace |-> listeners[i].Namespace]]

\* base64.StdEncoding.EncodeToString of a JSON text
EncodeToString(json) == << "base64", json >>

\* base64 of the JSON text null
Base64OfNull == << "base64", <<>>, "null" >>

\* base64.StdEncoding.DecodeString followed by json.Unmarshal into
\* []ExtraListener: a list gives its listeners, the text null leaves the
\* slice nil without an error, and any other value is an error
DecodeListeners(value) ==
    IF Len(value) = 3 /\ value = Base64OfNull
    THEN [err |-> FALSE, listeners |-> <<>>]
    ELSE IF Len(value) = 2 /\ value[1] = "base64"
    THEN [err |-> FALSE,
          listeners |->
              [i \in DOMAIN value[2] |->
                  [ListenProtocol |-> value[2][i].protocol,
                   ListenPort |-> value[2][i].listenport,
                   TargetPort |-> value[2][i].targetport,
                   PodLabel |-> IF value[2][i].podlabel.ok
                                THEN value[2][i].podlabel.val ELSE "",
                   Namespace |-> value[2][i].Namespace]]]
    ELSE [err |-> TRUE, listeners |-> <<>>]

\* cfTag and cfParam
cfTag(key, value) == [Key |-> key, Value |-> value]
cfParam(key, value) == [ParameterKey |-> key, ParameterValue |-> value]

\* the value of a key in a map[string]string: "" when the key is absent
ValueOf(m, key) == IF key \in DOMAIN m THEN m[key] ELSE <<>>

\* convertCloudFormationTags: the last tag of a key wins
convertCloudFormationTags(tags) ==
    [k \in { tags[i].Key : i \in DOMAIN tags } |->
        LET last == CHOOSE i \in DOMAIN tags :
                        /\ tags[i].Key = k
                        /\ \A j \in DOMAIN tags : tags[j].Key = k => j <= i
        IN tags[last].Value]

\* convertStackParameters
convertStackParameters(parameters) ==
    [k \in { parameters[i].ParameterKey : i \in DOMAIN parameters } |->
        LET last == CHOOSE i \in DOMAIN parameters :
                        /\ parameters[i].ParameterKey = k
                        /\ \A j \in DOMAIN parameters :
                               parameters[j].ParameterKey = k => j <= i
        IN parameters[last].ParameterValue]

\* isManagedStack with the legacy cluster tag as an alternative of its own
isManagedStack_LegacyAlone(cfTags, clusterID, controllerID) ==
    LET tags == convertCloudFormationTags(cfTags) IN
    \/ /\ ValueOf(tags, kubernetesCreatorTag) = controllerID
       /\ ValueOf(tags, clusterIDTagPrefix \o clusterID) = resourceLifecycleOwned
    \/ ValueOf(tags, clusterIDTag) = clusterID

\* isManagedStack
isManagedStack(cfTags, clusterID, controllerID) ==
    LET tags == convertCloudFormationTags(cfTags) IN
    IF ValueOf(tags, kubernetesCreatorTag) # controllerID THEN FALSE
    ELSE \/ ValueOf(tags, clusterIDTagPrefix \o clusterID) = resourceLifecycleOwned
         \/ ValueOf(tags, clusterIDTag) = clusterID

outputLoadBalancerDNSName == << "LoadBalancerDNSName" >>
outputLoadBalancerARN == << "LoadBalancerARN" >>
outputTargetGroupARN == << "TargetGroupARN" >>
outputHTTPTargetGroupARN == << "HTTP", "TargetGroupARN" >>

parameterLoadBalancerSchemeParameter == "LoadBalancerSchemeParameter"
parameterLoadBalancerSecurityGroupParameter == "LoadBalancerSecurityGroupParameter"
parameterListenerSslPolicyParameter == "ListenerSslPolicyParameter"
parameterIpAddressTypeParameter == "IpAddressType"
parameterLoadBalancerTypeParameter == "Type"
parameterLoadBalancerWAFWebACLIDParameter == "LoadBalancerWAFWebACLIDParameter"
parameterHTTP2Parameter == "HTTP2"

\* the value of a key in the parameters or outputs: "" when absent
StringOf(m, key) == IF key \in DOMAIN m THEN m[key] ELSE ""

\* newStackOutput
newStackOutput(outputs) ==
    [k \in { outputs[i].OutputKey : i \in DOMAIN outputs } |->
        LET last == CHOOSE i \in DOMAIN outputs :
                        /\ outputs[i].OutputKey = k
                        /\ \A j \in DOMAIN outputs :
                               outputs[j].OutputKey = k => j <= i
        IN outputs[last].OutputValue]

\* strings.Contains of one piece
Contains(s, piece) == \E i \in DOMAIN s : s[i] = piece

\* stackOutput.targetGroupARNs: the order is the map's, so the ARNs are a set
targetGroupARNs(o) ==
    { o[k] : k \in { k \in DOMAIN o : Contains(k, "TargetGroupARN") } }

\* the zero value &Stack{}
ZeroStack ==
    [Name |-> "", status |-> "", statusReason |-> "", DNSName |-> "",
     Scheme |-> "", SecurityGroup |-> "", SSLPolicy |-> "",
     IpAddressType |-> "", LoadBalancerType |-> "", HTTP2 |-> FALSE,
     ExtraListeners |-> <<>>, OwnerIngress |-> <<>>,
     CWAlarmConfigHash |-> <<>>, TargetGroupARNs |-> {},
     WAFWebACLID |-> "", CertificateARNs |-> [arn \in {} |-> ZeroTime],
     tags |-> [k \in {} |-> <<>>], loadbalancerARN |-> ""]

\* the entries that the prefixed tags write into certificateARNs
PrefixedCertificates(tags) ==
    [arn \in { TrimPrefix(k, certificateARNTagPrefix) :
                 k \in { k \in DOMAIN tags :
                           HasPrefix(k, certificateARNTagPrefix) } } |->
        LET ttl == Parse(tags[certificateARNTagPrefix \o arn])
        IN IF ttl.err THEN ZeroTime ELSE ttl.time]

\* the entry that the legacy tag writes into certificateARNs
LegacyCertificates(tags) ==
    IF certificateARNTagLegacy \in DOMAIN tags
    THEN [arn \in { tags[certificateARNTagLegacy] } |-> ZeroTime]
    ELSE [arn \in {} |-> ZeroTime]

\* mapToManagedStack without the legacy certificate tag
mapToManagedStack_NoLegacy(cfStack, legacyLast) ==
    [err |-> FALSE,
     stack |-> [ZeroStack EXCEPT
                  !.CertificateARNs =
                      PrefixedCertificates(convertCloudFormationTags(cfStack.Tags))]]

\* mapToManagedStack: the loop visits the tags in the order of the map, and
\* legacyLast says whether the legacy tag comes after the prefixed ones
mapToManagedStack(cfStack, legacyLast) ==
    LET outputs == newStackOutput(cfStack.Outputs)
        tags == convertCloudFormationTags(cfStack.Tags)
        parameters == convertStackParameters(cfStack.Parameters)
        certificateARNs ==
            IF legacyLast
            THEN LegacyCertificates(tags) @@ PrefixedCertificates(tags)
            ELSE PrefixedCertificates(tags) @@ LegacyCertificates(tags)
        ownerIngress == ValueOf(tags, ingressOwnerTag)
        decoded == IF extraListenersTag \in DOMAIN tags
                   THEN DecodeListeners(tags[extraListenersTag])
                   ELSE [err |-> FALSE, listeners |-> <<>>]
        http2 == StringOf(parameters, parameterHTTP2Parameter) # "false"
    IN IF decoded.err THEN [err |-> TRUE, stack |-> ZeroStack]
       ELSE [err |-> FALSE,
             stack |->
               [Name |-> cfStack.StackName,
                DNSName |-> StringOf(outputs, outputLoadBalancerDNSName),
                TargetGroupARNs |-> targetGroupARNs(outputs),
                Scheme |-> StringOf(parameters, parameterLoadBalancerSchemeParameter),
                SecurityGroup |-> StringOf(parameters, parameterLoadBalancerSecurityGroupParameter),
                SSLPolicy |-> StringOf(parameters, parameterListenerSslPolicyParameter),
                IpAddressType |-> StringOf(parameters, parameterIpAddressTypeParameter),
                LoadBalancerType |-> StringOf(parameters, parameterLoadBalancerTypeParameter),
                HTTP2 |-> http2,
                CertificateARNs |-> certificateARNs,
                tags |-> tags,
                OwnerIngress |-> ownerIngress,
                status |-> cfStack.StackStatus,
                statusReason |-> cfStack.StackStatusReason,
                CWAlarmConfigHash |-> ValueOf(tags, cwAlarmConfigHashTag),
                WAFWebACLID |-> StringOf(parameters, parameterLoadBalancerWAFWebACLIDParameter),
                ExtraListeners |-> decoded.listeners,
                loadbalancerARN |-> StringOf(outputs, outputLoadBalancerARN)]]

\* the stacks of all pages, in the order DescribeStacksPages hands them over
RECURSIVE StacksOfPages(_)
StacksOfPages(pages) ==
    IF pages = <<>> THEN <<>>
    ELSE Head(pages) \o StacksOfPages(Tail(pages))

\* findManagedStacks: apiErr is the error of DescribeStacksPages, and
\* legacyLast holds the names of the stacks whose legacy tag is visited last
\* findManagedStacks as it would be if it left out the stacks that fail to
\* decode
findManagedStacks_SkipsFailed(pages, clusterID, controllerID, apiErr, legacyLast) ==
    LET all == StacksOfPages(pages)
        accepted == SelectSeq(all,
                        LAMBDA s : isManagedStack(s.Tags, clusterID, controllerID))
        mapped == [i \in DOMAIN accepted |->
                      mapToManagedStack(accepted[i],
                                        accepted[i].StackName \in legacyLast)]
        good == SelectSeq(mapped, LAMBDA m : ~m.err)
    IN IF apiErr # NoError
       THEN [nil |-> TRUE, stacks |-> <<>>,
             err |-> "findManagedStacks failed to list stacks"]
       ELSE [nil |-> FALSE,
             stacks |-> [i \in DOMAIN good |-> good[i].stack],
             err |-> ""]

findManagedStacks(pages, clusterID, controllerID, apiErr, legacyLast) ==
    LET all == StacksOfPages(pages)
        accepted == SelectSeq(all,
                        LAMBDA s : isManagedStack(s.Tags, clusterID, controllerID))
        mapped == [i \in DOMAIN accepted |->
                      mapToManagedStack(accepted[i],
                                        accepted[i].StackName \in legacyLast)]
        errors == SelectSeq(mapped, LAMBDA m : m.err)
    IN IF apiErr # NoError
       THEN [nil |-> TRUE, stacks |-> <<>>,
             err |-> "findManagedStacks failed to list stacks"]
       ELSE IF Len(errors) > 0
       THEN [nil |-> TRUE, stacks |-> <<>>,
             err |-> "mapToManagedStacks returned errors"]
       ELSE [nil |-> FALSE,
             stacks |-> [i \in DOMAIN mapped |-> mapped[i].stack],
             err |-> ""]

\* no stack is listed, created or decoded
TagsIdle ==
    /\ cfStacks = <<>>
    /\ found = [op |-> "none"]

ErrLoadBalancerStackNotReady == "ErrLoadBalancerStackNotReady"

Range(s) == { s[i] : i \in DOMAIN s }

\* getStack: getCFStackByName takes the first stack that DescribeStacks
\* answers for the name, and every failure of it becomes
\* ErrLoadBalancerStackNotReady
getStack(pages, stackName, apiErr, legacyLast) ==
    LET named == SelectSeq(StacksOfPages(pages),
                           LAMBDA s : s.StackName = stackName)
    IN IF apiErr # NoError \/ Len(named) < 1
       THEN [nil |-> TRUE, err |-> ErrLoadBalancerStackNotReady]
       ELSE LET mapped == mapToManagedStack(named[1], legacyLast)
            IN [nil |-> FALSE, stack |-> mapped.stack,
                err |-> IF mapped.err THEN "json" ELSE ""]

ClusterIDs == { << "cluster-1" >>, << "cluster-2" >> }
ControllerIDs == { << "kube-ingress-aws-controller" >>, << "other-controller" >> }

\* none or one tag
Optional(tagSet) == { <<>> } \cup { << t >> : t \in tagSet }

\* the tags that isManagedStack reads, in every combination
ManagementTags ==
    { creator \o owned \o legacy :
        creator \in Optional({ cfTag(kubernetesCreatorTag, c) : c \in ControllerIDs }),
        owned \in Optional({ cfTag(clusterIDTagPrefix \o << "cluster-1" >>, v) :
                               v \in { resourceLifecycleOwned, << "shared" >> } }),
        legacy \in Optional({ cfTag(clusterIDTag, c) : c \in ClusterIDs }) }

\* an extra-listeners tag that is no base64 of a JSON list
GarbageListenersTag == cfTag(extraListenersTag, << "not base64" >>)

\* an extra-listeners tag that holds the JSON text null
NullListenersTag == cfTag(extraListenersTag, Base64OfNull)

\* a stack as DescribeStacks answers it
CFStack(name, tags, parameters) ==
    [StackName |-> name, StackStatus |-> "CREATE_COMPLETE",
     StackStatusReason |-> "", Tags |-> tags, Parameters |-> parameters,
     Outputs |-> << [OutputKey |-> outputLoadBalancerDNSName,
                     OutputValue |-> "lb.example.org"] >>]

NameOf(n) == ToString(n)

\* the stacks of a listing of several stacks: managed, managed with a tag
\* that does not decode, managed with a tag that holds null, tagged by the
\* legacy cluster tag alone, and managed through the legacy cluster tag
ManagedProfiles ==
    { << cfTag(kubernetesCreatorTag, << "kube-ingress-aws-controller" >>),
         cfTag(clusterIDTagPrefix \o << "cluster-1" >>, resourceLifecycleOwned) >>,
      << cfTag(kubernetesCreatorTag, << "kube-ingress-aws-controller" >>),
         cfTag(clusterIDTagPrefix \o << "cluster-1" >>, resourceLifecycleOwned),
         GarbageListenersTag >>,
      << cfTag(kubernetesCreatorTag, << "kube-ingress-aws-controller" >>),
         cfTag(clusterIDTagPrefix \o << "cluster-1" >>, resourceLifecycleOwned),
         NullListenersTag >>,
      << cfTag(clusterIDTag, << "cluster-1" >>) >>,
      << cfTag(kubernetesCreatorTag, << "kube-ingress-aws-controller" >>),
         cfTag(clusterIDTag, << "cluster-1" >>) >> }

\* the ways DescribeStacksPages cuts a listing into two pages
PagesOf(stacks) ==
    { << SubSeq(stacks, 1, k), SubSeq(stacks, k + 1, Len(stacks)) >> :
        k \in 0..Len(stacks) }

\* one stack with any management tags, or several stacks on two pages
ManagedInit ==
    /\ found = [op |-> "none"]
    /\ \/ \E tags \in ManagementTags, rest \in Optional({ GarbageListenersTag, NullListenersTag }) :
            cfStacks = << << CFStack(NameOf(1), tags \o rest, <<>>) >> >>
       \/ \E n \in 2..MaxStacks :
            \E profiles \in [1..n -> ManagedProfiles] :
                cfStacks \in PagesOf([i \in 1..n |->
                                        CFStack(NameOf(i), profiles[i], <<>>)])

ARNStrings == { << "arn", ToString(a) >> : a \in ARNs }

\* the values of a certificate tag: none, the text of an instant, or a
\* text that is no RFC3339
TTLValues == { Absent } \cup { Present(RFC3339Text(sec)) : sec \in Seconds }
                 \cup { Present(<< "soon" >>) }

RECURSIVE TagsOfValues(_, _)
TagsOfValues(values, arns) ==
    IF arns = {} THEN <<>>
    ELSE LET arn == CHOOSE a \in arns : TRUE
             rest == TagsOfValues(values, arns \ { arn })
         IN IF values[arn].ok
            THEN << cfTag(certificateARNTagPrefix \o arn, values[arn].val) >> \o rest
            ELSE rest

OneListener ==
    << [ListenProtocol |-> "TCP", ListenPort |-> 22, TargetPort |-> 2222,
        PodLabel |-> "application=ssh-service", Namespace |-> "default"] >>

\* the tags that mapToManagedStack reads, in every combination, and a tag
\* that it does not read
DecodedTags ==
    { TagsOfValues(values, ARNStrings) \o legacy \o owner \o listeners \o other :
        values \in [ARNStrings -> TTLValues],
        legacy \in Optional({ cfTag(certificateARNTagLegacy, arn) :
                                arn \in { << "arn", "1" >>, << "arn", "legacy" >> } }),
        owner \in Optional({ cfTag(ingressOwnerTag, << "default/foo" >>) }),
        listeners \in Optional({ cfTag(extraListenersTag,
                                       EncodeToString(Marshal(OneListener))),
                                 GarbageListenersTag }),
        other \in Optional({ cfTag(<< "ingress:certificate-arn", "s" >>,
                                   << "arn", "other" >>) }) }

DecodeInit ==
    /\ found = [op |-> "none"]
    /\ \E tags \in DecodedTags :
         cfStacks = << << CFStack(NameOf(1), tags, <<>>) >> >>

DoFindManagedStacks ==
    /\ found.op \in { "none", "createStack" }
    /\ cfStacks # <<>>
    /\ \E clusterID \in ClusterIDs, controllerID \in ControllerIDs :
         \E apiErr \in { NoError, ErrInternal } :
           \E legacyLast \in SUBSET { s.StackName : s \in Range(StacksOfPages(cfStacks)) } :
             found' = [op |-> "findManagedStacks", clusterID |-> clusterID,
                       controllerID |-> controllerID, apiErr |-> apiErr,
                       before |-> found,
                       result |-> findManagedStacks(cfStacks, clusterID,
                                      controllerID, apiErr, legacyLast)]
    /\ UNCHANGED cfStacks
    /\ UNCHANGED notTagVars

DoGetStack ==
    /\ found.op = "none"
    /\ cfStacks # <<>>
    /\ \E stackName \in { NameOf(n) : n \in StackNames } :
         \E apiErr \in { NoError, ErrInternal }, legacyLast \in BOOLEAN :
             found' = [op |-> "getStack", stackName |-> stackName,
                       apiErr |-> apiErr, legacyLast |-> legacyLast,
                       result |-> getStack(cfStacks, stackName, apiErr,
                                           legacyLast)]
    /\ UNCHANGED cfStacks
    /\ UNCHANGED notTagVars

\* mergeTags of two maps: a key of the later map replaces the same key of
\* the earlier one
mergeTags(first, second) ==
    [k \in DOMAIN first \cup DOMAIN second |->
        IF k \in DOMAIN second THEN second[k] ELSE first[k]]

\* the orders in which a range over the map can visit its keys
Orders(m) ==
    { order \in [1..Cardinality(DOMAIN m) -> DOMAIN m] :
        \A i, j \in DOMAIN order : order[i] = order[j] => i = j }

\* tagMapToCloudformationTags, the range visiting the keys in the order given
tagMapToCloudformationTags(tags, order) ==
    [i \in DOMAIN order |-> cfTag(order[i], tags[order[i]])]

\* the certificate tags that createStack appends, one per ARN
RECURSIVE CertificateTags(_, _)
CertificateTags(certificateARNs, arns) ==
    IF arns = {} THEN <<>>
    ELSE LET certARN == CHOOSE a \in arns : TRUE
         IN << cfTag(certificateARNTagPrefix \o certARN,
                     Format(certificateARNs[certARN])) >>
            \o CertificateTags(certificateARNs, arns \ { certARN })

\* strings.Join
RECURSIVE Join(_, _)
Join(elems, sep) ==
    IF elems = <<>> THEN ""
    ELSE IF Len(elems) = 1 THEN elems[1]
    ELSE elems[1] \o sep \o Join(Tail(elems), sep)

\* CloudWatchAlarmList.Hash: a text that stands for the alarms
Hash(cwAlarms) == << "sha256", cwAlarms >>

\* the CreateStackInput that createStack builds, without the template
CreateStackInput(spec, order) ==
    LET stackTags == (kubernetesCreatorTag :> spec.controllerID) @@
                     ((clusterIDTagPrefix \o spec.clusterID) :> resourceLifecycleOwned)
        tags == mergeTags(spec.tags, stackTags)
    IN [StackName |-> spec.name,
        Parameters |->
            << cfParam(parameterLoadBalancerSchemeParameter, spec.scheme),
               cfParam(parameterLoadBalancerSecurityGroupParameter, spec.securityGroupID),
               cfParam("LoadBalancerSubnetsParameter", Join(spec.subnets, ",")),
               cfParam("TargetGroupVPCIDParameter", spec.vpcID),
               cfParam("TargetGroupTargetPortParameter", ToString(spec.targetPort)),
               cfParam(parameterListenerSslPolicyParameter, spec.sslPolicy),
               cfParam(parameterIpAddressTypeParameter, spec.ipAddressType),
               cfParam(parameterLoadBalancerTypeParameter, spec.loadbalancerType),
               cfParam(parameterHTTP2Parameter,
                       IF spec.http2 THEN "true" ELSE "false") >>
            \o (IF spec.wafWebAclId # ""
                THEN << cfParam(parameterLoadBalancerWAFWebACLIDParameter,
                                spec.wafWebAclId) >>
                ELSE <<>>)
            \o (IF ~spec.httpDisabled /\ spec.httpTargetPort # spec.targetPort
                THEN << cfParam("TargetGroupHTTPTargetPortParameter",
                                ToString(spec.httpTargetPort)) >>
                ELSE <<>>)
            \o (IF ~spec.healthCheck.nil
                THEN << cfParam("TargetGroupHealthCheckPathParameter",
                                spec.healthCheck.path),
                        cfParam("TargetGroupHealthCheckPortParameter",
                                ToString(spec.healthCheck.port)),
                        cfParam("TargetGroupHealthCheckIntervalParameter",
                                ToString(spec.healthCheck.interval)),
                        cfParam("TargetGroupHealthCheckTimeoutParameter",
                                ToString(spec.healthCheck.timeout)) >>
                ELSE <<>>),
        Tags |->
            tagMapToCloudformationTags(tags, order)
            \o CertificateTags(spec.certificateARNs, DOMAIN spec.certificateARNs)
            \o (IF spec.ownerIngress # <<>>
                THEN << cfTag(ingressOwnerTag, spec.ownerIngress) >> ELSE <<>>)
            \o (IF Len(spec.cwAlarms) > 0
                THEN << cfTag(cwAlarmConfigHashTag, Hash(spec.cwAlarms)) >>
                ELSE <<>>)
            \o (IF Len(spec.extraListeners) > 0
                THEN << cfTag(extraListenersTag,
                              EncodeToString(Marshal(spec.extraListeners))) >>
                ELSE <<>>),
        TimeoutInMinutes |-> spec.timeoutInMinutes,
        EnableTerminationProtection |-> spec.stackTerminationProtection]

\* createStack: nothing is sent when the template fails, and the name of
\* the spec comes back with the error when CreateStack fails
createStack(spec, order, templateErr, apiErr) ==
    IF templateErr THEN [sent |-> FALSE, ret |-> "", err |-> "template"]
    ELSE IF apiErr # NoError
    THEN [sent |-> TRUE, input |-> CreateStackInput(spec, order),
          ret |-> spec.name, err |-> "api"]
    ELSE [sent |-> TRUE, input |-> CreateStackInput(spec, order),
          ret |-> "stack-id/" \o spec.name, err |-> ""]

\* the certificates of a new stack: any ARNs, all with the same TTL
NewCertificates ==
    UNION { { [arn \in D |-> t] : t \in Times } : D \in SUBSET ARNStrings }

\* the free-form tag maps: none, a tag of the operator, and tags under the
\* keys that createStack and mapToManagedStack use themselves
FreeFormTags ==
    { [k \in {} |-> <<>>],
      << "team" >> :> << "ingress" >>,
      kubernetesCreatorTag :> << "other-controller" >>,
      (clusterIDTagPrefix \o << "cluster-1" >>) :> << "shared" >>,
      (certificateARNTagPrefix \o << "arn", "1" >>) :> RFC3339Text(0),
      certificateARNTagLegacy :> << "arn", "1" >>,
      ingressOwnerTag :> << "default/other" >>,
      extraListenersTag :> << "not base64" >> }

\* the policy fields of a spec, jointly
PolicyFields ==
    { [scheme |-> "internet-facing", securityGroupID |-> "sg-1",
       sslPolicy |-> "ELBSecurityPolicy-2016-08", ipAddressType |-> "ipv4",
       loadbalancerType |-> "application", http2 |-> TRUE,
       wafWebAclId |-> "acl-1", httpDisabled |-> FALSE,
       httpTargetPort |-> 9998,
       healthCheck |-> [nil |-> FALSE, path |-> "/healthz", port |-> 9999,
                        interval |-> 10, timeout |-> 5]],
      [scheme |-> "internal", securityGroupID |-> "",
       sslPolicy |-> "ELBSecurityPolicy-TLS-1-2-2017-01",
       ipAddressType |-> "dualstack", loadbalancerType |-> "network",
       http2 |-> FALSE, wafWebAclId |-> "", httpDisabled |-> TRUE,
       httpTargetPort |-> 9998, healthCheck |-> [nil |-> TRUE]],
      [scheme |-> "internal", securityGroupID |-> "",
       sslPolicy |-> "ELBSecurityPolicy-2016-08", ipAddressType |-> "ipv4",
       loadbalancerType |-> "network", http2 |-> TRUE,
       wafWebAclId |-> "", httpDisabled |-> FALSE,
       httpTargetPort |-> 9999,
       healthCheck |-> [nil |-> FALSE, path |-> "/healthz", port |-> 9999,
                        interval |-> 10, timeout |-> 5]],
      [scheme |-> "internet-facing", securityGroupID |-> "sg-1",
       sslPolicy |-> "ELBSecurityPolicy-2016-08", ipAddressType |-> "ipv4",
       loadbalancerType |-> "application", http2 |-> FALSE,
       wafWebAclId |-> "acl-1", httpDisabled |-> TRUE,
       httpTargetPort |-> 9999, healthCheck |-> [nil |-> TRUE]] }

StackSpec(p, owner, certs, listeners, tags) ==
    [name |-> NameOf(1), scheme |-> p.scheme, ownerIngress |-> owner,
     subnets |-> << "subnet-1", "subnet-2" >>,
     certificateARNs |-> certs, securityGroupID |-> p.securityGroupID,
     clusterID |-> << "cluster-1" >>, vpcID |-> "vpc-1",
     healthCheck |-> p.healthCheck, targetPort |-> 9999,
     httpDisabled |-> p.httpDisabled, httpTargetPort |-> p.httpTargetPort,
     timeoutInMinutes |-> 15, stackTerminationProtection |-> FALSE,
     controllerID |-> << "kube-ingress-aws-controller" >>,
     sslPolicy |-> p.sslPolicy, ipAddressType |-> p.ipAddressType,
     loadbalancerType |-> p.loadbalancerType,
     wafWebAclId |-> p.wafWebAclId,
     cwAlarms |-> IF p.http2 THEN << "alarm" >> ELSE <<>>,
     extraListeners |-> listeners, http2 |-> p.http2, tags |-> tags]

\* the specs: the parameters depend on the policy fields alone and the tags
\* on the other fields alone, so the two are varied apart
StackSpecs ==
    { StackSpec(p, owner, [arn \in {} |-> ZeroTime], listeners, [k \in {} |-> <<>>]) :
        p \in PolicyFields, owner \in { <<>>, << "default/foo" >> },
        listeners \in { <<>>, OneListener } }
    \cup
    { StackSpec(p, owner, certs, listeners, tags) :
        p \in { q \in PolicyFields : q.scheme = "internal" /\ ~q.http2 },
        owner \in { <<>>, << "default/foo" >> },
        certs \in NewCertificates, listeners \in { <<>>, OneListener },
        tags \in FreeFormTags }

\* UpdateStackInput as it would be if the HTTP target port were always sent
UpdateStackInput_NoOwnerTag(spec, order) ==
    [CreateStackInput(spec, order) EXCEPT
        !.Tags = SelectSeq(@, LAMBDA t : t.Key # ingressOwnerTag)]

UpdateStackInput_AlwaysHTTPPort(spec, order) ==
    [CreateStackInput(spec, order) EXCEPT
        !.Parameters = SelectSeq(@, LAMBDA q : q.ParameterKey #
                                     "TargetGroupHTTPTargetPortParameter")
                       \o << cfParam("TargetGroupHTTPTargetPortParameter",
                                     ToString(spec.httpTargetPort)) >>]

\* the UpdateStackInput that updateStack builds, without the template
UpdateStackInput(spec, order) ==
    LET stackTags == (kubernetesCreatorTag :> spec.controllerID) @@
                     ((clusterIDTagPrefix \o spec.clusterID) :> resourceLifecycleOwned)
        tags == mergeTags(spec.tags, stackTags)
    IN [StackName |-> spec.name,
        Parameters |->
            << cfParam(parameterLoadBalancerSchemeParameter, spec.scheme),
               cfParam(parameterLoadBalancerSecurityGroupParameter, spec.securityGroupID),
               cfParam("LoadBalancerSubnetsParameter", Join(spec.subnets, ",")),
               cfParam("TargetGroupVPCIDParameter", spec.vpcID),
               cfParam("TargetGroupTargetPortParameter", ToString(spec.targetPort)),
               cfParam(parameterListenerSslPolicyParameter, spec.sslPolicy),
               cfParam(parameterIpAddressTypeParameter, spec.ipAddressType),
               cfParam(parameterLoadBalancerTypeParameter, spec.loadbalancerType),
               cfParam(parameterHTTP2Parameter,
                       IF spec.http2 THEN "true" ELSE "false") >>
            \o (IF spec.wafWebAclId # ""
                THEN << cfParam(parameterLoadBalancerWAFWebACLIDParameter,
                                spec.wafWebAclId) >>
                ELSE <<>>)
            \o (IF ~spec.httpDisabled /\ spec.httpTargetPort # spec.targetPort
                THEN << cfParam("TargetGroupHTTPTargetPortParameter",
                                ToString(spec.httpTargetPort)) >>
                ELSE <<>>)
            \o (IF ~spec.healthCheck.nil
                THEN << cfParam("TargetGroupHealthCheckPathParameter",
                                spec.healthCheck.path),
                        cfParam("TargetGroupHealthCheckPortParameter",
                                ToString(spec.healthCheck.port)),
                        cfParam("TargetGroupHealthCheckIntervalParameter",
                                ToString(spec.healthCheck.interval)),
                        cfParam("TargetGroupHealthCheckTimeoutParameter",
                                ToString(spec.healthCheck.timeout)) >>
                ELSE <<>>),
        Tags |->
            tagMapToCloudformationTags(tags, order)
            \o CertificateTags(spec.certificateARNs, DOMAIN spec.certificateARNs)
            \o (IF spec.ownerIngress # <<>>
                THEN << cfTag(ingressOwnerTag, spec.ownerIngress) >> ELSE <<>>)
            \o (IF Len(spec.cwAlarms) > 0
                THEN << cfTag(cwAlarmConfigHashTag, Hash(spec.cwAlarms)) >>
                ELSE <<>>)
            \o (IF Len(spec.extraListeners) > 0
                THEN << cfTag(extraListenersTag,
                              EncodeToString(Marshal(spec.extraListeners))) >>
                ELSE <<>>)]

UpdateStackRequest(input, err) ==
    [api |-> "UpdateStack", StackName |-> input.StackName, input |-> input,
     err |-> err]

\* updateStack as it would be if it sent the flag of the spec whatever it is
updateStack_AlwaysSendsFlag(spec, order, templateErr, utpErr, updErr) ==
    IF templateErr THEN [requests |-> <<>>, ret |-> "", err |-> "template"]
    ELSE IF utpErr # Nil
    THEN [requests |-> << UTPRequest(spec.name,
                                     spec.stackTerminationProtection, utpErr) >>,
          ret |-> spec.name, err |-> utpErr]
    ELSE [requests |->
              << UTPRequest(spec.name, spec.stackTerminationProtection, Nil),
                 UpdateStackRequest(UpdateStackInput(spec, order), updErr) >>,
          ret |-> IF updErr # Nil THEN spec.name ELSE "stack-id/" \o spec.name,
          err |-> IF updErr # Nil THEN updErr ELSE ""]

\* updateStack: the requests it issues and what it returns; utpErr and
\* updErr are the answers of the API
updateStack(spec, order, templateErr, utpErr, updErr) ==
    IF templateErr THEN [requests |-> <<>>, ret |-> "", err |-> "template"]
    ELSE IF spec.stackTerminationProtection /\ utpErr # Nil
    THEN [requests |-> << UTPRequest(spec.name,
                                     spec.stackTerminationProtection, utpErr) >>,
          ret |-> spec.name, err |-> utpErr]
    ELSE [requests |->
              (IF spec.stackTerminationProtection
               THEN << UTPRequest(spec.name, spec.stackTerminationProtection, Nil) >>
               ELSE <<>>)
              \o << UpdateStackRequest(UpdateStackInput(spec, order), updErr) >>,
          ret |-> IF updErr # Nil THEN spec.name ELSE "stack-id/" \o spec.name,
          err |-> IF updErr # Nil THEN updErr ELSE ""]

CreateStackRequest(input, err) ==
    [api |-> "CreateStack", StackName |-> input.StackName, input |-> input,
     err |-> err]

\* the number under which CloudFormation keeps the stack of a name
NumberOf(name) == CHOOSE n \in StackNames : NameOf(n) = name

\* the stacks of the listing, the stack of a name replaced by s
Replaced(pages, name, s) ==
    [p \in DOMAIN pages |->
        [i \in DOMAIN pages[p] |->
            IF pages[p][i].StackName = name THEN s ELSE pages[p][i]]]

\* createStack, and CloudFormation keeping the stack with the tags, the
\* parameters and the termination protection it was sent
CallCreateStack(spec, order, templateErr, apiErr) ==
    LET created == createStack(spec, order, templateErr, apiErr)
        n == NumberOf(spec.name)
    IN /\ call' = [op |-> "createStack", name |-> n,
                   requests |-> IF created.sent
                                THEN << CreateStackRequest(created.input,
                                                           created.err) >>
                                ELSE <<>>,
                   ret |-> IF created.err = "" THEN Nil ELSE created.err]
       /\ cfLive' = IF created.err = "" THEN [cfLive EXCEPT ![n] = TRUE]
                    ELSE cfLive
       /\ cfProt' = IF created.err = ""
                    THEN [cfProt EXCEPT
                            ![n] = created.input.EnableTerminationProtection]
                    ELSE cfProt
       /\ cfStacks' =
            IF created.err = ""
            THEN << (IF cfStacks = <<>> THEN <<>> ELSE cfStacks[1]) \o
                    << [StackName |-> created.input.StackName,
                        StackStatus |-> "CREATE_IN_PROGRESS",
                        StackStatusReason |-> "",
                        Tags |-> created.input.Tags,
                        Parameters |-> created.input.Parameters,
                        Outputs |-> <<>>] >> >>
                 \o (IF cfStacks = <<>> THEN <<>> ELSE Tail(cfStacks))
            ELSE cfStacks

\* updateStack, and CloudFormation switching the protection on and taking
\* the tags and the parameters it was sent
CallUpdateStack(spec, order, templateErr, utpErr, updErr) ==
    LET updated == updateStack(spec, order, templateErr, utpErr, updErr)
        n == NumberOf(spec.name)
        last == IF updated.requests = <<>> THEN [api |-> "none"]
                ELSE updated.requests[Len(updated.requests)]
    IN /\ call' = [op |-> "updateStack", name |-> n,
                   requests |-> updated.requests,
                   ret |-> IF updated.err = "" THEN Nil ELSE updated.err]
       /\ cfLive' = cfLive
       /\ cfProt' = IF \E i \in DOMAIN updated.requests :
                          /\ updated.requests[i].api = "UpdateTerminationProtection"
                          /\ updated.requests[i].err = Nil
                    THEN [cfProt EXCEPT
                            ![n] = updated.requests[1].EnableTerminationProtection]
                    ELSE cfProt
       /\ cfStacks' =
            IF last.api = "UpdateStack" /\ last.err = Nil
            THEN Replaced(cfStacks, spec.name,
                          [StackName |-> spec.name,
                           StackStatus |-> "UPDATE_IN_PROGRESS",
                           StackStatusReason |-> "",
                           Tags |-> last.input.Tags,
                           Parameters |-> last.input.Parameters,
                           Outputs |-> <<>>])
            ELSE cfStacks

\* the tags of the spec and of createStack, merged
MergedTags(spec) ==
    mergeTags(spec.tags,
              (kubernetesCreatorTag :> spec.controllerID) @@
              ((clusterIDTagPrefix \o spec.clusterID) :> resourceLifecycleOwned))

\* the first stack of an account is created from any spec
DoCreateStack ==
    /\ found.op = "none"
    /\ cfStacks = <<>>
    /\ \E spec \in StackSpecs, templateErr \in BOOLEAN :
         \E apiErr \in { NoError, ErrInternal } :
           \E order \in Orders(MergedTags(spec)) :
             /\ CallCreateStack(spec, order, templateErr, apiErr)
             /\ found' = [op |-> "createStack", spec |-> spec,
                          ret |-> createStack(spec, order, templateErr, apiErr).ret,
                          err |-> createStack(spec, order, templateErr, apiErr).err]
    /\ UNCHANGED <<stackVars, adapterVars>>

\* the stack is updated with the spec it was created from, as a tick does
\* that finds nothing changed
DoUpdateStack ==
    /\ found.op = "createStack"
    /\ cfStacks # <<>>
    /\ \E templateErr \in BOOLEAN, utpErr \in ApiErrors \cup {Nil} :
         \E updErr \in ApiErrors \cup {Nil} :
           \* an API that is not called gives no answer
           /\ (templateErr \/ ~found.spec.stackTerminationProtection) => utpErr = Nil
           /\ (templateErr \/ utpErr # Nil) => updErr = Nil
           /\ \E order \in Orders(MergedTags(found.spec)) :
             /\ CallUpdateStack(found.spec, order, templateErr, utpErr, updErr)
             /\ found' = [op |-> "updateStack", spec |-> found.spec,
                          created |-> call.requests[1].input]
    /\ UNCHANGED <<stackVars, adapterVars>>

(***************************************************************************)
(* Specifications.                                                         *)
(***************************************************************************)
InitStack == StackInit /\ CFIdle /\ AdapterIdle /\ TagsIdle

NextStack ==
    \/ Tick
    \/ CallIsComplete
    \/ CallShouldDelete
    \/ CallErr

\* the Stack methods on every stack, while the clock advances
SpecStack == InitStack /\ [][NextStack]_vars

InitCF == CFInit /\ StackIdle /\ AdapterIdle /\ TagsIdle

NextCF == DoDeleteStack

\* the stack operations against CloudFormation
SpecCF == InitCF /\ [][NextCF]_vars

InitNormalize == NormalizeInit /\ StackIdle /\ CFIdle /\ TagsIdle

NextNormalize == DoNewIngress

\* newIngress on every object
SpecNormalize == InitNormalize /\ [][NextNormalize]_vars

InitList == ListInit /\ StackIdle /\ CFIdle /\ TagsIdle

NextList == DoListResources

\* the ticks of the adapter: each lists the resources of the API
SpecList == InitList /\ [][NextList]_vars

InitWriteBack == WriteBackInit /\ StackIdle /\ CFIdle /\ TagsIdle

NextWriteBack ==
    \/ DoListResources
    \/ DoUpdateIngressLoadBalancer

\* the ticks of the adapter with the status write-back
SpecWriteBack == InitWriteBack /\ [][NextWriteBack]_vars

InitFilter == FilterInit /\ StackIdle /\ CFIdle /\ TagsIdle

NextFilter ==
    \/ DoListIngress
    \/ DoListRoutegroups

\* one listing of the objects of one kind, under any class filter
SpecFilter == InitFilter /\ [][NextFilter]_vars

InitManaged == ManagedInit /\ StackIdle /\ CFIdle /\ AdapterIdle

NextManaged ==
    \/ DoFindManagedStacks

\* one listing of the managed stacks among the stacks of two pages
SpecManaged == InitManaged /\ [][NextManaged]_vars

InitDecode == DecodeInit /\ StackIdle /\ CFIdle /\ AdapterIdle

NextDecode ==
    \/ DoGetStack

\* one reading of a stack with any certificate, owner and listener tags
SpecDecode == InitDecode /\ [][NextDecode]_vars

InitRoundTrip == TagsIdle /\ StackIdle /\ CFIdle /\ AdapterIdle

NextRoundTrip ==
    \/ DoCreateStack
    \/ DoFindManagedStacks

\* one stack is created and then listed
SpecRoundTrip == InitRoundTrip /\ [][NextRoundTrip]_vars

InitResend == TagsIdle /\ StackIdle /\ CFIdle /\ AdapterIdle

NextResend ==
    \/ DoCreateStack
    \/ DoUpdateStack

\* one stack is created and then updated with the same spec
SpecResend == InitResend /\ [][NextResend]_vars

(***************************************************************************)
(* Properties of the Stack methods (SpecStack).                            *)
(***************************************************************************)
certs == stack.CertificateARNs

AllExpired(t) == \A a \in DOMAIN certs : certs[a] <= t

NoZeroTTL == \A a \in DOMAIN certs : certs[a] # ZeroTime

\* C1 as stated: for a non-nil stack, ShouldDelete returns true if and only
\* if every TTL of the stack is <= now (the zero instant included).
C1_AsStated ==
    (res.op = "ShouldDelete" /\ ~stack.nil)
        => (res.bool <=> AllExpired(res.at))

\* C1 as amended: for a non-nil stack, ShouldDelete returns true if and
\* only if every TTL of the stack is not the zero instant and is <= now.
C1_ShouldDelete ==
    (res.op = "ShouldDelete" /\ ~stack.nil)
        => (res.bool <=> (NoZeroTTL /\ AllExpired(res.at)))

\* ShouldDelete answered true for a stack with two TTLs, one of them exactly now
C1_Witness ==
    /\ res.op = "ShouldDelete" /\ ~stack.nil /\ res.bool
    /\ Cardinality(DOMAIN certs) = 2
    /\ \E a \in DOMAIN certs : certs[a] = res.at

\* C2: with the certificate tags held fixed while the clock advances,
\* ShouldDelete is false whenever a TTL is zero or in the future, true once
\* the clock has reached the last TTL of a stack without zero TTLs, stays
\* true from then on, and stays false for a stack that holds a zero TTL.
C2_Draining ==
    /\ [](~stack.nil =>
            /\ (\E a \in DOMAIN certs : certs[a] = ZeroTime \/ certs[a] > now)
                  => ~ShouldDelete(stack, now)
            /\ (NoZeroTTL /\ AllExpired(now)) => ShouldDelete(stack, now))
    /\ [][(stack' = stack /\ ShouldDelete(stack, now))
             => ShouldDelete(stack', now')]_vars
    /\ [][(stack' = stack /\ ~stack.nil /\ ~NoZeroTTL)
             => ~ShouldDelete(stack', now')]_vars

\* ShouldDelete answered false while a TTL was in the future, and the clock
\* has since passed the last TTL: the stack is now deletion-eligible
C2_Witness ==
    /\ res.op = "ShouldDelete" /\ ~res.bool /\ res.at < now
    /\ DOMAIN certs # {} /\ NoZeroTTL
    /\ \E a \in DOMAIN certs : certs[a] < res.at
    /\ ShouldDelete(stack, now)

CompleteStatuses ==
    { "CREATE_COMPLETE", "UPDATE_COMPLETE", "ROLLBACK_COMPLETE",
      "UPDATE_ROLLBACK_COMPLETE" }

\* every status of the AWS SDK whose name ends in _IN_PROGRESS
InProgressStatuses ==
    { "CREATE_IN_PROGRESS", "ROLLBACK_IN_PROGRESS", "DELETE_IN_PROGRESS",
      "UPDATE_IN_PROGRESS", "UPDATE_COMPLETE_CLEANUP_IN_PROGRESS",
      "UPDATE_ROLLBACK_IN_PROGRESS",
      "UPDATE_ROLLBACK_COMPLETE_CLEANUP_IN_PROGRESS", "REVIEW_IN_PROGRESS",
      "IMPORT_IN_PROGRESS", "IMPORT_ROLLBACK_IN_PROGRESS" }

\* the in-progress statuses Err accepts
ProgressingStatuses ==
    { "CREATE_IN_PROGRESS", "UPDATE_IN_PROGRESS",
      "UPDATE_COMPLETE_CLEANUP_IN_PROGRESS", "DELETE_IN_PROGRESS" }

\* C4: IsComplete returns true exactly for CREATE_COMPLETE, UPDATE_COMPLETE,
\* ROLLBACK_COMPLETE and UPDATE_ROLLBACK_COMPLETE, and false for every other
\* status and for a nil stack.
C4_IsComplete ==
    res.op = "IsComplete"
        => (res.bool <=> (~stack.nil /\ stack.status \in CompleteStatuses))

\* IsComplete answered true for a stack whose update was rolled back
C4_Witness ==
    /\ res.op = "IsComplete" /\ res.bool
    /\ stack.status = "UPDATE_ROLLBACK_COMPLETE"

\* C5 as stated: a complete status has IsComplete true, every *_IN_PROGRESS
\* status has IsComplete false and Err nil, every remaining status has a
\* non-nil Err.
C5_AsStated ==
    ~stack.nil =>
        /\ res.op = "IsComplete" =>
              /\ stack.status \in CompleteStatuses => res.bool
              /\ stack.status \in InProgressStatuses => ~res.bool
        /\ res.op = "Err" =>
              /\ stack.status \in InProgressStatuses => res.err = NoErr
              /\ stack.status \notin (CompleteStatuses \cup InProgressStatuses)
                    => res.err # NoErr

\* C5 as amended: IsComplete is true exactly for the four complete statuses;
\* Err is nil exactly for CREATE_IN_PROGRESS, UPDATE_IN_PROGRESS,
\* UPDATE_COMPLETE_CLEANUP_IN_PROGRESS, DELETE_IN_PROGRESS (none of them
\* complete), CREATE_COMPLETE, UPDATE_COMPLETE and DELETE_COMPLETE; every
\* other status, the other *_IN_PROGRESS ones included, has a non-nil Err
\* that carries the status and the reason.
C5_Classes ==
    ~stack.nil =>
        /\ IsComplete(stack) <=> stack.status \in CompleteStatuses
        /\ stack.status \in ProgressingStatuses
              => (~IsComplete(stack) /\ Err(stack) = NoErr)
        /\ Err(stack) = NoErr
              <=> stack.status \in ProgressingStatuses \cup
                    { "CREATE_COMPLETE", "UPDATE_COMPLETE", "DELETE_COMPLETE" }
        /\ Err(stack) # NoErr
              => Err(stack) = StackErr(stack.status, stack.statusReason)
        /\ res.op = "Err" => res.err = Err(stack)

\* Err answered an error for a stack that is rolling back
C5_Witness ==
    /\ res.op = "Err" /\ res.err # NoErr
    /\ stack.status = "ROLLBACK_IN_PROGRESS"
    /\ res.err.reason # ""

\* C6 as stated: a stack whose Err is not nil is never complete.
C6_AsStated ==
    (res.op = "Err" /\ res.err # NoErr) => ~IsComplete(stack)

\* C6 as amended: a stack whose Err is not nil is not complete, unless its
\* status is ROLLBACK_COMPLETE or UPDATE_ROLLBACK_COMPLETE: those two have a
\* non-nil Err and are complete.
C6_ErrNotComplete ==
    (res.op = "Err" /\ ~stack.nil) =>
        ((res.err # NoErr /\ IsComplete(stack))
            <=> stack.status \in { "ROLLBACK_COMPLETE",
                                   "UPDATE_ROLLBACK_COMPLETE" })

\* Err answered an error for a failed stack, which is not complete
C6_Witness ==
    /\ res.op = "Err" /\ res.err # NoErr
    /\ stack.status = "UPDATE_ROLLBACK_FAILED"
    /\ ~IsComplete(stack)

(***************************************************************************)
(* Properties of the stack operations (SpecCF).                            *)
(***************************************************************************)
\* C3: deleteStack sends DeleteStack for a stack name only after
\* UpdateTerminationProtection with EnableTerminationProtection = false for
\* that name has succeeded; when clearing the protection fails it sends no
\* DeleteStack and returns that error.
C3_DeleteAfterUnprotect ==
    call.op = "deleteStack" =>
        LET rs == call.requests IN
        /\ Len(rs) >= 1
        /\ \A i \in DOMAIN rs :
              rs[i].api = "DeleteStack"
                  => /\ rs[i].StackName = call.name
                     /\ \E j \in 1..(i - 1) :
                          rs[j] = UTPRequest(call.name, FALSE, Nil)
        /\ (rs[1].api = "UpdateTerminationProtection" /\ rs[1].err # Nil)
              => /\ \A i \in DOMAIN rs : rs[i].api # "DeleteStack"
                 /\ call.ret = rs[1].err

\* deleteStack cleared the termination protection and then deleted the stack
C3_Witness ==
    /\ call.op = "deleteStack" /\ call.ret = Nil
    /\ Len(call.requests) = 2
    /\ call.requests[2] = DeleteStackRequest(call.name, Nil)
    /\ ~cfLive[call.name] /\ ~cfProt[call.name]

(***************************************************************************)
(* Properties of the status write-back (SpecWriteBack).                    *)
(***************************************************************************)
WroteBack == upd.op = "UpdateIngressLoadBalancer" /\ ~upd.nil
NoPatch == upd.err = ErrUpdateNotNeeded /\ ~upd.patch

\* C7 as the specification states it: for every non-empty DNS name h, a
\* record whose observed status hostname equals h gets ErrUpdateNotNeeded and
\* no PATCH.  The cluster-local sentinel refutes it: it is written as the
\* empty hostname, so an observed ".cluster.local" is patched to "".
C7_AsStated ==
    WroteBack /\ upd.dns # "" /\ upd.observed = upd.dns => NoPatch

\* C7: the status write-back is idempotent.  For every record and every
\* non-empty DNS name h other than the cluster-local sentinel, a record whose
\* observed status hostname equals h gets ErrUpdateNotNeeded and no PATCH; for
\* the sentinel the same holds of a record whose observed hostname is empty.
\* And when a record is listed again after a write-back of h patched it, the
\* next write-back of the same h gets ErrUpdateNotNeeded and no PATCH, so the
\* two ticks issue exactly one PATCH.
C7_Idempotent ==
    WroteBack =>
        /\ (/\ upd.dns # ""
            /\ upd.dns # DefaultClusterLocalDomain
            /\ upd.observed = upd.dns) => NoPatch
        /\ (upd.dns = DefaultClusterLocalDomain /\ upd.observed = "") => NoPatch
        /\ (upd.fresh /\ upd.prev.patched /\ upd.prev.dns = upd.dns) => NoPatch

\* the second of two ticks with the DNS name x.elb: the first one patched the
\* record, the record was listed again, and the write-back is short-circuited
C7_Witness ==
    /\ WroteBack
    /\ upd.fresh
    /\ upd.prev.patched
    /\ upd.prev.dns = "x.elb"
    /\ upd.dns = "x.elb"
    /\ upd.observed = "x.elb"
    /\ NoPatch

(***************************************************************************)
(* Properties of the listing (SpecList).                                   *)
(***************************************************************************)
Listed == listed.op = "ListResources"

\* the adapter as it was when the last ListResources was entered
AdapterBefore ==
    [adapter EXCEPT !.extraCNIEndpoints = listed.before,
                    !.routeGroupSupport = listed.entered]

\* what ListIngress alone gives on the objects of the API
IngressOnly == ListIngress(AdapterBefore, kube.ingresses, NoError)

\* C8: the RouteGroup latch.  Over any sequence of ListResources calls on one
\* Adapter, routeGroupSupport starts true and changes only from true to false;
\* a call entered with routeGroupSupport false sends no RouteGroup listing
\* request and processes Ingress objects only: its records and the CNI
\* endpoints it collects are those of the Ingress objects.
C8_Latch ==
    /\ adapter.routeGroupSupport
    /\ [][adapter.routeGroupSupport' => adapter.routeGroupSupport]_vars
    /\ [](Listed /\ ~listed.entered =>
            /\ \A i \in DOMAIN listed.requests :
                   listed.requests[i].api # "routegroups"
            /\ \A i \in DOMAIN listed.ret :
                   listed.ret[i].ResourceType = TypeIngress
            /\ listed.err = NoError =>
                   /\ listed.ret = IngressOnly.ret
                   /\ adapter.extraCNIEndpoints = IngressOnly.extraCNIEndpoints)

\* a call entered with the latch down, while the API holds RouteGroups, that
\* returned records
C8_Witness ==
    /\ Listed
    /\ ~listed.entered
    /\ Len(kube.routegroups) > 0
    /\ Len(listed.ret) > 0

\* the answer of the API to the Ingress listing of the last call, and to its
\* RouteGroup listing when there was one
IngressAnswer == listed.requests[1].err
RouteGroupsListed == Len(listed.requests) = 2
RouteGroupAnswer == listed.requests[2].err

\* C9: in the ListResources call where the RouteGroup listing fails with
\* resource-not-found or no-permission, the call latches routeGroupSupport
\* false and returns the Ingress-derived records with a nil error; when the
\* RouteGroup listing fails with another error, or the Ingress listing fails,
\* the call returns that error with no records and leaves routeGroupSupport
\* as it was.
C9_ListingErrors ==
    Listed =>
        /\ IngressAnswer # NoError =>
               /\ listed.err # NoError
               /\ Is(listed.err, IngressAnswer)
               /\ listed.ret = <<>>
               /\ adapter.routeGroupSupport = listed.entered
        /\ (/\ RouteGroupsListed
            /\ RouteGroupAnswer \in { ErrResourceNotFound,
                                      ErrNoPermissionToAccessResource }) =>
               /\ ~adapter.routeGroupSupport
               /\ listed.err = NoError
               /\ listed.ret = IngressOnly.ret
        /\ (/\ RouteGroupsListed
            /\ RouteGroupAnswer \notin { NoError, ErrResourceNotFound,
                                         ErrNoPermissionToAccessResource }) =>
               /\ listed.err = RouteGroupAnswer
               /\ listed.ret = <<>>
               /\ adapter.routeGroupSupport = listed.entered

\* the call that met no-permission on the RouteGroup listing while the API
\* holds RouteGroups: it latched and returned the Ingress records
C9_Witness ==
    /\ Listed
    /\ listed.entered
    /\ RouteGroupsListed
    /\ RouteGroupAnswer = ErrNoPermissionToAccessResource
    /\ Len(kube.routegroups) > 0
    /\ Len(listed.ret) > 0
    /\ listed.err = NoError
    /\ ~adapter.routeGroupSupport

(***************************************************************************)
(* Properties of newIngress (SpecNormalize).                               *)
(***************************************************************************)
Normalized == norm.op = "newIngress" /\ norm.err = NoError

\* C10: for every object and every default configuration of the adapter, a
\* record returned by newIngress with LoadBalancerType network has
\* IPAddressType ipv4, also when the object carries the ip-address-type
\* annotation with the value dualstack.
C10_NetworkIsIPv4 ==
    Normalized /\ norm.ing.LoadBalancerType = LoadBalancerTypeNetwork =>
        norm.ing.IPAddressType = IPAddressTypeIPV4

\* a network load balancer for an object annotated dualstack
C10_Witness ==
    /\ Normalized
    /\ norm.ing.LoadBalancerType = LoadBalancerTypeNetwork
    /\ norm.metadata.Annotations["ingressALBIPAddressType"] =
           Present(IPAddressTypeDualstack)
    /\ norm.ing.IPAddressType = IPAddressTypeIPV4

\* the annotations of the object newIngress was called on
Has(key) == norm.metadata.Annotations[key].ok
Value(key) == norm.metadata.Annotations[key].val
Called == norm.op = "newIngress"

\* C11 as the specification states it: a record with a non-empty
\* ExtraListeners list has LoadBalancerType network, and an object with the
\* extra-listeners annotation never yields a record of another type.  An NLB
\* chosen by the controller default for an object with extra listeners and a
\* WAF or security-group annotation refutes it: the listeners are accepted
\* and the type is then demoted to application.
C11_AsStated ==
    Normalized =>
        /\ Len(norm.ing.ExtraListeners) > 0 =>
               norm.ing.LoadBalancerType = LoadBalancerTypeNetwork
        /\ Has("ingressNLBExtraListenersAnnotation") =>
               norm.ing.LoadBalancerType = LoadBalancerTypeNetwork

\* C12 as the specification states it: an object with a security-group or
\* WAF annotation never yields a record with LoadBalancerType network.  A
\* type annotation that is not understood refutes it when the controller
\* default is nlb: the type falls back to the default after the check.
C12_AsStated ==
    Normalized /\ (Has("ingressSecurityGroupAnnotation")
                      \/ Has("ingressWAFWebACLIDAnnotation")) =>
        norm.ing.LoadBalancerType # LoadBalancerTypeNetwork

\* the object leaves the type to the controller, which defaults to nlb, and is
\* internet-facing
DefaultsToNLB ==
    /\ Called
    /\ adapter.ingressDefaultLoadBalancerType = loadBalancerTypeNLB
    /\ ~Has("ingressLoadBalancerTypeAnnotation")
    /\ Value("ingressSchemeAnnotation") # LoadBalancerSchemeEnumInternal

\* C13: silent demotion by annotation.  When the controller default type is
\* nlb, the object has no type annotation, is internet-facing, carries a WAF
\* or a security-group annotation and no extra-listeners annotation,
\* newIngress returns a record with LoadBalancerType application and no error.
C13_DemotedByAnnotation ==
    (/\ DefaultsToNLB
     /\ Has("ingressWAFWebACLIDAnnotation") \/ Has("ingressSecurityGroupAnnotation")
     /\ ~Has("ingressNLBExtraListenersAnnotation")) =>
        /\ norm.err = NoError
        /\ norm.ing.LoadBalancerType = LoadBalancerTypeApplication

\* the scenario of the specification: default nlb, WAF annotation abc only
C13_Witness ==
    /\ DefaultsToNLB
    /\ Value("ingressWAFWebACLIDAnnotation") = "abc"
    /\ Has("ingressWAFWebACLIDAnnotation")
    /\ ~Has("ingressSecurityGroupAnnotation")
    /\ ~Has("ingressNLBExtraListenersAnnotation")
    /\ norm.err = NoError
    /\ norm.ing.LoadBalancerType = LoadBalancerTypeApplication

\* the type of the object resolves to nlb, and its security group comes from
\* the controller default only: no security-group and no WAF annotation
NLBWithDefaultSecurityGroup ==
    /\ Normalized
    /\ ChooseLoadBalancerType(norm.metadata.Annotations, norm.ing.Scheme,
                              adapter.ingressDefaultLoadBalancerType)
           = loadBalancerTypeNLB
    /\ adapter.ingressDefaultSecurityGroup # ""
    /\ ~Has("ingressSecurityGroupAnnotation")
    /\ ~Has("ingressWAFWebACLIDAnnotation")

\* C14 as the specification states it: an NLB whose security group is set by
\* the controller default only is demoted to application.
C14_AsStated ==
    NLBWithDefaultSecurityGroup =>
        norm.ing.LoadBalancerType = LoadBalancerTypeApplication

\* C14: a security group set by the controller default only does not demote.
\* When the type of an object resolves to nlb and its security group comes
\* from a non-empty ingressDefaultSecurityGroup, with no security-group and no
\* WAF annotation, the record keeps LoadBalancerType network and carries the
\* default security group.
C14_DefaultsKeepNLB ==
    NLBWithDefaultSecurityGroup =>
        /\ norm.ing.LoadBalancerType = LoadBalancerTypeNetwork
        /\ norm.ing.SecurityGroup = adapter.ingressDefaultSecurityGroup

\* a default NLB with the default security group
C14_Witness ==
    /\ NLBWithDefaultSecurityGroup
    /\ ~Has("ingressLoadBalancerTypeAnnotation")
    /\ norm.ing.SecurityGroup = "sg-default"
    /\ norm.ing.LoadBalancerType = LoadBalancerTypeNetwork

(***************************************************************************)
(* Properties of a filtered listing (SpecFilter).                          *)
(***************************************************************************)
\* the last call listed the objects of one kind and the API answered
ListedKind ==
    /\ listed.op \in { "ListIngress", "ListRoutegroups" }
    /\ listed.requests[1].err = NoError

KindListed == IF listed.op = "ListIngress" THEN TypeIngress ELSE TypeRouteGroup

\* the objects the API returned to the last call
ItemsListed ==
    IF listed.op = "ListIngress" THEN kube.ingresses ELSE kube.routegroups

\* an object on its own: whether the class filter keeps it, and what
\* newIngress makes of it
PassesFilter(item) ==
    IF KindListed = TypeIngress THEN supportedIngress(AdapterBefore, item)
    ELSE supportedCRD(AdapterBefore, item.Metadata)

Alone(item) ==
    IF KindListed = TypeIngress THEN newIngressFromKube(AdapterBefore, item)
    ELSE newIngressFromRouteGroup(AdapterBefore, item)

Succeeds(item) == PassesFilter(item) /\ Alone(item).err = NoError

\* the objects that pass the filter and normalise, in listing order
Survivors == SelectSeq(ItemsListed, Succeeds)

\* C15: a validation failure drops only the offending object.  For every
\* list of Ingress (RouteGroup) objects the API returns, ListIngress
\* (ListRoutegroups) returns a nil error and exactly one record, in listing
\* order, for each object that passes the class filter and whose
\* normalisation succeeds: the record newIngress gives for that object alone.
\* An object whose normalisation fails contributes no record.
C15_DropsOnlyOffender ==
    ListedKind =>
        /\ listed.err = NoError
        /\ Len(listed.ret) = Len(Survivors)
        /\ \A i \in DOMAIN listed.ret : listed.ret[i] = Alone(Survivors[i]).ing

\* a listing in which an object that fails comes before one that is kept
C15_Witness ==
    /\ ListedKind
    /\ \E i, j \in DOMAIN ItemsListed :
           /\ i < j
           /\ PassesFilter(ItemsListed[i])
           /\ Alone(ItemsListed[i]).err # NoError
           /\ Succeeds(ItemsListed[j])
    /\ Len(listed.ret) > 0

\* the class of an object as the specification defines it
ClassAnnotation(item) ==
    IF item.Metadata.Annotations["ingressClassAnnotation"].ok
    THEN item.Metadata.Annotations["ingressClassAnnotation"].val ELSE ""

ClassOf(item) ==
    IF KindListed = TypeIngress /\ item.Spec.IngressClassName # ""
    THEN item.Spec.IngressClassName
    ELSE ClassAnnotation(item)

\* the filter set is empty or holds the class of the object
KeptByClass(item) ==
    \/ adapter.ingressFilters = <<>>
    \/ \E k \in DOMAIN adapter.ingressFilters :
           adapter.ingressFilters[k] = ClassOf(item)

\* the listing returned a record for the object
HasRecord(item) ==
    \E i \in DOMAIN listed.ret : listed.ret[i].Name = item.Metadata.Name

\* C17: class filtering.  An object is kept if and only if the filter set is
\* empty or the class of the object is a member of it, where the class of an
\* Ingress is spec.ingressClassName when non-empty and otherwise the value of
\* the kubernetes.io/ingress.class annotation (empty when neither is set),
\* and the class of a RouteGroup is the annotation value: the listing returns
\* a record for every such object that normalises and for no other object.
C17_ClassFilter ==
    ListedKind =>
        \A i \in DOMAIN ItemsListed :
            /\ PassesFilter(ItemsListed[i]) <=> KeptByClass(ItemsListed[i])
            /\ HasRecord(ItemsListed[i]) =>  KeptByClass(ItemsListed[i])
            /\ (KeptByClass(ItemsListed[i])
                  /\ Alone(ItemsListed[i]).err = NoError) => HasRecord(ItemsListed[i])

\* a filtered listing of two Ingresses annotated with a class of the filter:
\* the one whose spec.ingressClassName names another class is dropped
C17_Witness ==
    /\ ListedKind
    /\ listed.op = "ListIngress"
    /\ adapter.ingressFilters # <<>>
    /\ \E i, j \in DOMAIN ItemsListed :
           /\ ClassAnnotation(ItemsListed[i]) = "skipper"
           /\ ItemsListed[i].Spec.IngressClassName = "other"
           /\ ~HasRecord(ItemsListed[i])
           /\ ClassAnnotation(ItemsListed[j]) = "skipper"
           /\ ItemsListed[j].Spec.IngressClassName = ""
           /\ HasRecord(ItemsListed[j])

(***************************************************************************)
(* The CNI endpoints over the ticks (SpecList).                            *)
(***************************************************************************)
\* the endpoints the last ListResources call collects when it starts from an
\* empty list: the pairs of the extra listeners of the objects it listed
EndpointsOfTick ==
    ListResources([AdapterBefore EXCEPT !.extraCNIEndpoints = <<>>],
                  IngressAnswer,
                  IF RouteGroupsListed THEN RouteGroupAnswer ELSE NoError)
        .adapter.extraCNIEndpoints

\* C16 as the specification states it: after every ListResources call,
\* extraCNIEndpoints holds exactly the (namespace, podlabel) pairs of the
\* extra listeners of the objects listed in that call, nothing carried over
\* from earlier calls.  The second tick on an unchanged NLB with an extra
\* listener refutes it: newIngress appends to the list of the first tick.
C16_AsStated ==
    Listed => adapter.extraCNIEndpoints = EndpointsOfTick

\* ---- the claims about the stack tags (SpecManaged, SpecDecode) ----
FoundManaged == found.op = "findManagedStacks"

AllStacks == StacksOfPages(cfStacks)

\* the stack carries the tag key = value
Carries(s, key, value) ==
    \E i \in DOMAIN s.Tags : s.Tags[i].Key = key /\ s.Tags[i].Value = value

OwnedBy(s) ==
    /\ Carries(s, kubernetesCreatorTag, found.controllerID)
    /\ Carries(s, clusterIDTagPrefix \o found.clusterID, resourceLifecycleOwned)

LegacyOf(s) == Carries(s, clusterIDTag, found.clusterID)

NamesOf(stacks) == [i \in DOMAIN stacks |-> stacks[i].StackName]

ResultNames == [i \in DOMAIN found.result.stacks |-> found.result.stacks[i].Name]

\* C18 as stated: findManagedStacks returns exactly the stacks, of all
\* pages, that carry the creator tag of the controller and the owned tag of
\* the cluster, or the legacy cluster tag of the cluster.
C18_AsStated ==
    (FoundManaged /\ found.apiErr = NoError) =>
        /\ ~found.result.nil
        /\ ResultNames =
             NamesOf(SelectSeq(AllStacks, LAMBDA s : OwnedBy(s) \/ LegacyOf(s)))

ByCreator(s) ==
    /\ Carries(s, kubernetesCreatorTag, found.controllerID)
    /\ \/ Carries(s, clusterIDTagPrefix \o found.clusterID, resourceLifecycleOwned)
       \/ LegacyOf(s)

Undecodable(s) ==
    \E i \in DOMAIN s.Tags :
        /\ s.Tags[i].Key = extraListenersTag
        /\ DecodeListeners(s.Tags[i].Value).err

\* C18, corrected: a stack is accepted exactly when it carries the creator
\* tag of the controller and, besides, the owned tag of the cluster or the
\* legacy cluster tag of the cluster; findManagedStacks returns the accepted
\* stacks of all pages, in their order, when the listing succeeds and every
\* accepted stack decodes, and no stack and an error otherwise.
C18_CreatorTagRequired ==
    FoundManaged =>
        LET accepted == SelectSeq(AllStacks, LAMBDA s : ByCreator(s))
        IN IF \/ found.apiErr # NoError
              \/ \E i \in DOMAIN accepted : Undecodable(accepted[i])
           THEN found.result.nil /\ found.result.err # ""
           ELSE /\ ~found.result.nil
                /\ found.result.err = ""
                /\ ResultNames = NamesOf(accepted)

\* a listing of two pages that returns a stack and leaves out a stack that
\* carries the legacy cluster tag alone
C18_Witness ==
    /\ FoundManaged
    /\ ~found.result.nil
    /\ Len(found.result.stacks) >= 1
    /\ \A p \in DOMAIN cfStacks : cfStacks[p] # <<>>
    /\ \E i \in DOMAIN AllStacks :
         /\ LegacyOf(AllStacks[i])
         /\ ~ByCreator(AllStacks[i])
         /\ \A j \in DOMAIN found.result.stacks :
                found.result.stacks[j].Name # AllStacks[i].StackName

\* getStack found the stack and handed it to mapToManagedStack
Decoded == found.op = "getStack" /\ ~found.result.nil

\* the tags of the stack that getStack read
TagsRead ==
    (CHOOSE s \in Range(AllStacks) : s.StackName = found.stackName).Tags

PrefixedTags ==
    { i \in DOMAIN TagsRead : HasPrefix(TagsRead[i].Key, certificateARNTagPrefix) }

LegacyTags ==
    { i \in DOMAIN TagsRead : TagsRead[i].Key = certificateARNTagLegacy }

SuffixOf(i) == TrimPrefix(TagsRead[i].Key, certificateARNTagPrefix)

CertificatesRead == found.result.stack.CertificateARNs

\* the keys are the suffixes of the prefixed tags and the legacy ARN
KeysAsStated ==
    DOMAIN CertificatesRead =
        { SuffixOf(i) : i \in PrefixedTags } \cup
        { TagsRead[i].Value : i \in LegacyTags }

\* C19 as stated: for every tag set, the keys of CertificateARNs are the
\* suffixes of the prefixed certificate tags and the value of the legacy
\* tag; a prefixed tag gives its RFC3339 instant, or the zero instant when
\* its value does not parse, and the legacy ARN has the zero instant.
C19_AsStated ==
    Decoded =>
        /\ KeysAsStated
        /\ \A i \in PrefixedTags :
               CertificatesRead[SuffixOf(i)] = Parse(TagsRead[i].Value).time
        /\ \A i \in LegacyTags :
               CertificatesRead[TagsRead[i].Value] = ZeroTime

ListenersUnreadable ==
    \E i \in DOMAIN TagsRead :
        /\ TagsRead[i].Key = extraListenersTag
        /\ DecodeListeners(TagsRead[i].Value).err

Collides(arn) ==
    /\ \E i \in PrefixedTags : SuffixOf(i) = arn
    /\ \E i \in LegacyTags : TagsRead[i].Value = arn

\* C19, corrected: when the extra-listeners tag does not decode,
\* mapToManagedStack answers an error and an empty record; otherwise the
\* keys are as stated, an ARN that only a prefixed tag names has the
\* instant of the tag or the zero instant when the value does not parse, an
\* ARN that only the legacy tag names has the zero instant, and an ARN that
\* both name has the one or the other, after the order in which the tags
\* are visited.
C19_DecodesCertificates ==
    Decoded =>
        IF ListenersUnreadable
        THEN found.result.err # "" /\ found.result.stack = ZeroStack
        ELSE /\ found.result.err = ""
             /\ KeysAsStated
             /\ \A i \in PrefixedTags :
                    CertificatesRead[SuffixOf(i)] =
                        IF Collides(SuffixOf(i)) /\ found.legacyLast
                        THEN ZeroTime
                        ELSE Parse(TagsRead[i].Value).time
             /\ \A i \in LegacyTags :
                    ~Collides(TagsRead[i].Value) =>
                        CertificatesRead[TagsRead[i].Value] = ZeroTime

\* a stack whose legacy tag names the ARN of a prefixed tag with a later
\* instant, read with the instant of the prefixed tag, next to a tag whose
\* value does not parse
C19_Witness ==
    /\ Decoded
    /\ found.result.err = ""
    /\ \E i \in PrefixedTags :
         /\ Collides(SuffixOf(i))
         /\ CertificatesRead[SuffixOf(i)] # ZeroTime
    /\ \E i \in PrefixedTags :
         /\ Parse(TagsRead[i].Value).err
         /\ CertificatesRead[SuffixOf(i)] = ZeroTime

(***************************************************************************)
(* The round trip of a stackSpec through the stack tags (SpecRoundTrip).   *)
(***************************************************************************)
\* a stack was created from a spec and then listed, without an error of
\* the API, for the cluster and the controller of the spec
RoundTrip ==
    /\ FoundManaged
    /\ found.before.op = "createStack"
    /\ found.apiErr = NoError
    /\ found.clusterID = found.before.spec.clusterID
    /\ found.controllerID = found.before.spec.controllerID

SpecCreated == found.before.spec

\* the record is the spec: the same ARNs with TTLs equal to the second,
\* and the same owner, listeners and policy fields
SameAsSpec(s, spec) ==
    /\ DOMAIN s.CertificateARNs = DOMAIN spec.certificateARNs
    /\ \A arn \in DOMAIN spec.certificateARNs :
           s.CertificateARNs[arn] \div TicksPerSecond =
               spec.certificateARNs[arn] \div TicksPerSecond
    /\ s.OwnerIngress = spec.ownerIngress
    /\ s.ExtraListeners = spec.extraListeners
    /\ s.Scheme = spec.scheme
    /\ s.SecurityGroup = spec.securityGroupID
    /\ s.SSLPolicy = spec.sslPolicy
    /\ s.IpAddressType = spec.ipAddressType
    /\ s.LoadBalancerType = spec.loadbalancerType
    /\ s.HTTP2 = spec.http2
    /\ s.WAFWebACLID = spec.wafWebAclId

\* C20 as stated: for every stackSpec, the stack that carries the tags and
\* parameters createStack sends is accepted for the cluster and controller
\* of the spec, and is decoded to the certificates, owner, listeners and
\* policy fields of the spec.
C20_AsStated ==
    RoundTrip =>
        /\ \A i \in DOMAIN AllStacks :
               isManagedStack(AllStacks[i].Tags, found.clusterID, found.controllerID)
        /\ ~found.result.nil
        /\ Len(found.result.stacks) = 1
        /\ SameAsSpec(found.result.stacks[1], SpecCreated)

\* the keys under which createStack and mapToManagedStack keep the
\* certificates, the owner and the listeners
Reserved(key) ==
    \/ HasPrefix(key, certificateARNTagPrefix)
    \/ key \in { certificateARNTagLegacy, ingressOwnerTag, extraListenersTag }

\* the round trip holds for the specs whose free-form tags stay off the
\* reserved keys, whatever they say about the creator and the cluster
RoundTripOffReservedKeys ==
    (RoundTrip /\ \A k \in DOMAIN SpecCreated.tags : ~Reserved(k)) =>
        /\ ~found.result.nil
        /\ Len(found.result.stacks) = 1
        /\ SameAsSpec(found.result.stacks[1], SpecCreated)

\* every created stack is accepted for the cluster and controller of its
\* spec
CreatedIsAccepted ==
    RoundTrip =>
        \A i \in DOMAIN AllStacks :
            isManagedStack(AllStacks[i].Tags, found.clusterID, found.controllerID)

(***************************************************************************)
(* The parameters and tags of createStack and updateStack (SpecResend).    *)
(***************************************************************************)
\* the CreateStackInput or UpdateStackInput that the last call sent
Sent ==
    { call.requests[i].input :
        i \in { i \in DOMAIN call.requests :
                  call.requests[i].api \in { "CreateStack", "UpdateStack" } } }

KeysOf(input) ==
    { input.Parameters[i].ParameterKey : i \in DOMAIN input.Parameters }

Holds(input, key, value) ==
    \E i \in DOMAIN input.Parameters :
        input.Parameters[i] = [ParameterKey |-> key, ParameterValue |-> value]

HealthCheckKeys ==
    { "TargetGroupHealthCheckPathParameter", "TargetGroupHealthCheckPortParameter",
      "TargetGroupHealthCheckIntervalParameter",
      "TargetGroupHealthCheckTimeoutParameter" }

\* C21: the parameters that createStack and updateStack send always hold
\* the scheme, the subnets, the VPC, the target port, the SSL policy, the
\* address type, the type and HTTP/2, each once; they hold the WAF ACL id
\* exactly when the spec has one, the HTTP target port exactly when HTTP is
\* enabled and the port differs from the target port, and the four health
\* check parameters exactly when the spec has a health check.
C21_ConditionalParameters ==
    \A input \in Sent :
        /\ Cardinality(KeysOf(input)) = Len(input.Parameters)
        /\ Holds(input, parameterLoadBalancerSchemeParameter, found.spec.scheme)
        /\ Holds(input, "LoadBalancerSubnetsParameter", "subnet-1,subnet-2")
        /\ Holds(input, "TargetGroupVPCIDParameter", found.spec.vpcID)
        /\ Holds(input, "TargetGroupTargetPortParameter", "9999")
        /\ Holds(input, parameterListenerSslPolicyParameter, found.spec.sslPolicy)
        /\ Holds(input, parameterIpAddressTypeParameter, found.spec.ipAddressType)
        /\ Holds(input, parameterLoadBalancerTypeParameter, found.spec.loadbalancerType)
        /\ Holds(input, parameterHTTP2Parameter,
                 IF found.spec.http2 THEN "true" ELSE "false")
        /\ parameterLoadBalancerWAFWebACLIDParameter \in KeysOf(input)
               <=> found.spec.wafWebAclId # ""
        /\ "TargetGroupHTTPTargetPortParameter" \in KeysOf(input)
               <=> /\ ~found.spec.httpDisabled
                   /\ found.spec.httpTargetPort # found.spec.targetPort
        /\ \A k \in HealthCheckKeys :
               k \in KeysOf(input) <=> ~found.spec.healthCheck.nil

\* an update sent for a spec with HTTP enabled on the target port, with a
\* health check and without a WAF ACL
C21_Witness ==
    /\ call.op = "updateStack"
    /\ Sent # {}
    /\ ~found.spec.httpDisabled
    /\ found.spec.httpTargetPort = found.spec.targetPort
    /\ found.spec.wafWebAclId = ""
    /\ \A input \in Sent :
         /\ "TargetGroupHTTPTargetPortParameter" \notin KeysOf(input)
         /\ HealthCheckKeys \subseteq KeysOf(input)

(***************************************************************************)
(* The protocols of the extra listeners (SpecNormalize).                   *)
(***************************************************************************)
\* newIngress was called for an object with the extra-listeners annotation
WithListeners ==
    /\ Called
    /\ norm.metadata.Annotations["ingressNLBExtraListenersAnnotation"].ok

RawListeners == norm.metadata.Annotations["ingressNLBExtraListenersAnnotation"].val

AllowedProtocols == { "TCP", "UDP", "TCP_UDP" }

\* every listener of a returned record has an allowed protocol
RecordProtocolsAllowed ==
    (norm.err = NoError /\ ~norm.ing.nil) =>
        \A i \in DOMAIN norm.ing.ExtraListeners :
            norm.ing.ExtraListeners[i].ListenProtocol \in AllowedProtocols

SomeProtocolRefused ==
    \E i \in DOMAIN RawListeners.items :
        RawListeners.items[i].protocol \notin AllowedProtocols

Refused == norm.err # NoError /\ norm.ing.nil

\* C22 as stated: for every object with the extra-listeners annotation, a
\* returned record has only listeners with the protocols TCP, UDP or
\* TCP_UDP, and newIngress returns an error and no record when a listener
\* at any position has another protocol or the annotation is no JSON list.
C22_AsStated ==
    WithListeners =>
        /\ RecordProtocolsAllowed
        /\ (SomeProtocolRefused \/ ~RawListeners.list) => Refused

\* C22, corrected: as stated, but the error for the text of the annotation
\* is the error of json.Unmarshal: a text that does not unmarshal into a
\* listener list is refused, and the JSON text null, which is no list but
\* unmarshals into the empty list, is taken for an annotation without
\* listeners.
C22_ProtocolsAllowed ==
    WithListeners =>
        /\ RecordProtocolsAllowed
        /\ (SomeProtocolRefused \/ ~RawListeners.valid) => Refused
        /\ (norm.err = NoError /\ ~RawListeners.list) =>
               norm.ing.ExtraListeners = <<>>

\* an object refused for its second listener, after a first one that is
\* allowed
C22_Witness ==
    /\ WithListeners
    /\ Refused
    /\ Len(RawListeners.items) >= 2
    /\ RawListeners.items[1].protocol \in AllowedProtocols
    /\ RawListeners.items[2].protocol \notin AllowedProtocols

\* C27 as stated: for every object for which newIngress returns an error,
\* the extraCNIEndpoints of the Adapter after the call are those before the
\* call.  An object refused for its second listener, or an NLB by
\* annotation refused for its security group, refutes it: the loop has
\* appended the endpoints of the listeners it went through.
C27_AsStated ==
    (Called /\ norm.err # NoError) =>
        adapter.extraCNIEndpoints = norm.before

(***************************************************************************)
(* The write-back of the cluster-local sentinel (SpecWriteBack).           *)
(***************************************************************************)
\* the status of the object that the last write-back was called for
StatusWritten ==
    LET items == IF upd.key[1] = TypeRouteGroup THEN kube.routegroups
                 ELSE kube.ingresses
        i == CHOOSE i \in DOMAIN items :
                 /\ items[i].Metadata.Namespace = upd.key[2]
                 /\ items[i].Metadata.Name = upd.key[3]
    IN items[i].Status

\* C23: when UpdateIngressLoadBalancer is called for a record with the
\* cluster-local sentinel, a record whose observed hostname is empty gets
\* ErrUpdateNotNeeded and no PATCH, and for any other record a PATCH with
\* the empty hostname is issued, which leaves the empty hostname in the
\* status of the object when the API accepts it.
C23_SentinelWritesEmpty ==
    (WroteBack /\ upd.dns = DefaultClusterLocalDomain) =>
        IF upd.observed = "" THEN NoPatch
        ELSE /\ upd.patch
             /\ upd.hostname = ""
             /\ upd.err = NoError => StatusWritten = << "" >>

\* a record with the hostname x.elb, written back with the sentinel
C23_Witness ==
    /\ WroteBack
    /\ upd.dns = DefaultClusterLocalDomain
    /\ upd.observed = "x.elb"
    /\ upd.patch
    /\ upd.err = NoError
    /\ StatusWritten = << "" >>

(***************************************************************************)
(* The resources of the synthesized template (SpecTemplate).  The          *)
(* repository's template generator is written down by its expected output, *)
(* the template of the ingress with one host, one certificate ("DUMMY"),   *)
(* a network load balancer and one extra listener.                         *)
(***************************************************************************)

\* the digest of a byte string, kept as the bytes it was taken of
Sum256(bytes) == << "sha256", bytes >>

\* the zero byte
NUL == "\\x00"

\* %x of a digest: the two digests the expected template decides are
\* written out, the others stay symbolic
Hex(sum) ==
    IF sum = Sum256(<< "DUMMY", NUL >>)
    THEN << "fc48082457b770e278fc0bd3d392d127869993166f76e8df57d19a0e662820ea" >>
    ELSE IF sum = Sum256(<< "DUMMY" >>)
    THEN << "ceec12762e66397b56dad64fd270bb3d694c78fb9cd665354383c0626dbab013" >>
    ELSE << "hex", sum >>

\* the certificate the HTTPS listener carries: the only one of the
\* specification
PrimaryOf(certificateARNs) == The(certificateARNs)

\* the HTTPS listener: port 443, TLS on a network load balancer, with the
\* primary certificate
HTTPSListener(spec) ==
    [name |-> << "HTTPSListener" >>,
     Type |-> "AWS::ElasticLoadBalancingV2::Listener",
     Certificates |-> << PrimaryOf(spec.certificateARNs) >>,
     Ref |-> "LB", Port |-> 443, Protocol |-> "TLS"]

ListenerCertificates_BeyondPrimary(spec) ==
    { [name |-> << "HTTPSListenerCertificate", Hex(Sum256(<< arn >>)) >>,
       Type |-> "AWS::ElasticLoadBalancingV2::ListenerCertificate",
       Certificates |-> << arn >>,
       Ref |-> "HTTPSListener", Port |-> 0, Protocol |-> ""] :
        arn \in spec.certificateARNs \ { PrimaryOf(spec.certificateARNs) } }

\* the ListenerCertificate resource: it lists the certificate of the
\* listener it refers to, and its name ends in the digest of the ARN
\* followed by a zero byte
ListenerCertificates(spec) ==
    { [name |-> << "HTTPSListenerCertificate", Hex(Sum256(<< arn, NUL >>)) >>,
       Type |-> "AWS::ElasticLoadBalancingV2::ListenerCertificate",
       Certificates |-> << arn >>,
       Ref |-> "HTTPSListener", Port |-> 0, Protocol |-> ""] :
        arn \in spec.certificateARNs }

\* the listener and the target group of the i-th extra listener
ExtraResources(spec) ==
    UNION { { [name |-> << "ExtraListener", ToString(i - 1) >>,
               Type |-> "AWS::ElasticLoadBalancingV2::Listener",
               Certificates |-> <<>>, Ref |-> "LB",
               Port |-> spec.extraListeners[i].ListenPort,
               Protocol |-> spec.extraListeners[i].ListenProtocol],
              [name |-> << "ExtraTG", ToString(i - 1) >>,
               Type |-> "AWS::ElasticLoadBalancingV2::TargetGroup",
               Certificates |-> <<>>, Ref |-> "",
               Port |-> spec.extraListeners[i].TargetPort,
               Protocol |-> spec.extraListeners[i].ListenProtocol] } :
            i \in DOMAIN spec.extraListeners }

\* the resources of the template of a network load balancer: the load
\* balancer and its target group, the extra listeners, and with a
\* certificate the HTTPS listener and its ListenerCertificate
generateTemplate(spec) ==
    { [name |-> << "LB" >>,
       Type |-> "AWS::ElasticLoadBalancingV2::LoadBalancer",
       Certificates |-> <<>>, Ref |-> "", Port |-> 0, Protocol |-> ""],
      [name |-> << "TG" >>,
       Type |-> "AWS::ElasticLoadBalancingV2::TargetGroup",
       Certificates |-> <<>>, Ref |-> "", Port |-> 0, Protocol |-> "TCP"] }
    \cup ExtraResources(spec)
    \cup (IF spec.certificateARNs = {} THEN {}
          ELSE { HTTPSListener(spec) } \cup ListenerCertificates(spec))

\* the extra listeners of the specifications
TemplateListeners ==
    { [ListenProtocol |-> p, ListenPort |-> lp, TargetPort |-> tp] :
        p \in { "TCP", "UDP" }, lp \in { 22, 53 }, tp \in { 2222 } }

\* the certificate ARNs of the specifications
TemplateARNs == { "DUMMY", "arn-1", "arn-2" }

\* the specifications: at most one certificate, the one of the expected
\* template among them, and up to MaxListeners extra listeners
TemplateSpecs ==
    { [certificateARNs |-> arns, extraListeners |-> ls] :
        arns \in { {} } \cup { { a } : a \in TemplateARNs },
        ls \in UNION { [1..n -> TemplateListeners] : n \in 0..MaxListeners } }

InitTemplate ==
    /\ cfStacks = <<>>
    /\ \E spec \in TemplateSpecs : found = [op |-> "stackSpec", spec |-> spec]
    /\ StackIdle /\ CFIdle /\ AdapterIdle

DoGenerateTemplate ==
    /\ found.op = "stackSpec"
    /\ found' = [op |-> "generateTemplate", spec |-> found.spec,
                 Resources |-> generateTemplate(found.spec)]
    /\ UNCHANGED cfStacks
    /\ UNCHANGED notTagVars

NextTemplate ==
    \/ DoGenerateTemplate

SpecTemplate == InitTemplate /\ [][NextTemplate]_vars

Generated == found.op = "generateTemplate"

\* the ListenerCertificate resources of the generated template
CertificateResources ==
    { r \in found.Resources :
        r.Type = "AWS::ElasticLoadBalancingV2::ListenerCertificate" }

\* the certificate the HTTPS listener of the generated template carries
Attached ==
    UNION { Range(r.Certificates) :
              r \in { l \in found.Resources : l.name = << "HTTPSListener" >> } }

MaxInstances == 3

dipSplitSize == 2

\* the code of the state "running"
runningState == 16

ErrDummy == "ErrDummy"

\* R: a response of the mock with its error
R(response, err) == [response |-> response, err |-> err]

\* MockDIOutput: one DescribeInstancesOutput with one reservation holding
\* the instances
MockDIOutput(mockedInstances) ==
    [Reservations |-> << [Instances |-> mockedInstances] >>]

MockDIPOutput_NoRemainder(e, mockedInstances) ==
    [i \in 1..(Len(mockedInstances) \div dipSplitSize) |->
        R(MockDIOutput(SubSeq(mockedInstances, (i - 1) * dipSplitSize + 1,
                              i * dipSplitSize)), e)]

\* MockDIPOutput: the instances in pages of dipSplitSize, the rest in a last
\* shorter page, every page with the error
MockDIPOutput(e, mockedInstances) ==
    LET pages == Len(mockedInstances) \div dipSplitSize
        result == [i \in 1..pages |->
                     R(MockDIOutput(SubSeq(mockedInstances,
                                           (i - 1) * dipSplitSize + 1,
                                           i * dipSplitSize)), e)]
    IN IF Len(mockedInstances) % dipSplitSize # 0
       THEN Append(result,
                   R(MockDIOutput(SubSeq(mockedInstances,
                                         pages * dipSplitSize + 1,
                                         Len(mockedInstances))), e))
       ELSE result

\* MockEc2Client.DescribeInstancesPages: the callback sees every page in
\* order, and the error is that of the first page
DescribeInstancesPages(outputs) ==
    [pages |-> [i \in DOMAIN outputs |-> outputs[i].response],
     err |-> IF Len(outputs) # 0 THEN outputs[1].err ELSE Nil]

\* the entry of one instance
InstanceDetailsOf(instance) ==
    [id |-> instance.Id, tags |-> instance.Tags, ip |-> instance.PrivateIp,
     vpcID |-> instance.VpcId, running |-> instance.State = runningState]

\* the callback on the instances of one reservation
RECURSIVE AddInstances(_, _)
AddInstances(result, instances) ==
    IF instances = <<>> THEN result
    ELSE LET i == Head(instances)
         IN AddInstances([id \in DOMAIN result \cup { i.Id } |->
                            IF id = i.Id THEN InstanceDetailsOf(i)
                            ELSE result[id]],
                         Tail(instances))

\* the callback on the reservations of one page
RECURSIVE AddReservations(_, _)
AddReservations(result, reservations) ==
    IF reservations = <<>> THEN result
    ELSE AddReservations(AddInstances(result, Head(reservations).Instances),
                         Tail(reservations))

RECURSIVE AddPages(_, _)
AddPages(result, pages) ==
    IF pages = <<>> THEN result
    ELSE AddPages(AddReservations(result, Head(pages).Reservations),
                  Tail(pages))

\* getInstancesDetailsWithFilters: the map of the instances of all pages by
\* id, or the error of DescribeInstancesPages and no map
getInstancesDetailsWithFilters(outputs) ==
    LET paged == DescribeInstancesPages(outputs)
    IN IF paged.err # Nil
       THEN [nil |-> TRUE, result |-> <<>>, err |-> paged.err]
       ELSE [nil |-> FALSE, result |-> AddPages(<<>>, paged.pages),
             err |-> Nil]

InstanceIds == { "foo1", "foo2", "foo3" }

InstanceTags == { [k \in { "bar" } |-> "baz"], [k \in { "aaa" } |-> "zzz"] }

InstanceStates == { runningState, 32, 80 }

\* the instances of the mock: distinct ids, each with its own address
TestInstances ==
    { [Id |-> id, Tags |-> t, PrivateIp |-> << "1.2.3", id >>, VpcId |-> "1",
       State |-> s] : id \in InstanceIds, t \in InstanceTags, s \in InstanceStates }

InstanceLists ==
    { l \in UNION { [1..n -> TestInstances] : n \in 0..MaxInstances } :
        \A i, j \in DOMAIN l : l[i].Id = l[j].Id => i = j }

InitInstances ==
    /\ cfStacks = <<>>
    /\ found = [op |-> "none"]
    /\ StackIdle /\ CFIdle /\ AdapterIdle

DoGetInstancesDetails ==
    /\ found.op = "none"
    /\ \E e \in { Nil, ErrDummy }, mockedInstances \in InstanceLists :
         LET outputs == MockDIPOutput(e, mockedInstances)
         IN found' = [op |-> "getInstancesDetailsWithFilters", e |-> e,
                      mockedInstances |-> mockedInstances,
                      pages |-> Len(outputs),
                      apiErr |-> DescribeInstancesPages(outputs).err,
                      got |-> getInstancesDetailsWithFilters(outputs)]
    /\ UNCHANGED cfStacks
    /\ UNCHANGED notTagVars

NextInstances ==
    \/ DoGetInstancesDetails

SpecInstances == InitInstances /\ [][NextInstances]_vars

GotInstances == found.op = "getInstancesDetailsWithFilters"

\* C25: when DescribeInstancesPages succeeds the map has exactly the ids of
\* the instances of all pages, each with its tags, address and VPC and
\* running exactly for state 16, and no instances give an empty map; when it
\* reports an error the function returns an error and no map
C25_AllPages ==
    GotInstances =>
        IF found.apiErr = Nil
        THEN /\ found.got.err = Nil /\ ~found.got.nil
             /\ DOMAIN found.got.result
                  = { i.Id : i \in Range(found.mockedInstances) }
             /\ \A i \in Range(found.mockedInstances) :
                  LET d == found.got.result[i.Id]
                  IN /\ d.id = i.Id /\ d.tags = i.Tags
                     /\ d.ip = i.PrivateIp /\ d.vpcID = i.VpcId
                     /\ (d.running <=> i.State = 16)
             /\ (found.mockedInstances = <<>> => found.got.result = <<>>)
        ELSE found.got.err # Nil /\ found.got.nil

\* three instances came in two pages, the first of them running, and all
\* three are in the map
C25_Witness ==
    /\ GotInstances
    /\ found.apiErr = Nil
    /\ found.pages = 2
    /\ Len(found.mockedInstances) = 3
    /\ found.mockedInstances[1].State = 16
    /\ found.mockedInstances[3].State = 80
    /\ Cardinality(DOMAIN found.got.result) = 3

(***************************************************************************)
(* The cluster id of an instance (SpecClusterID).                          *)
(***************************************************************************)

nameTag == << "Name" >>

kubernetesClusterLegacyTag == << "KubernetesCluster" >>

\* the cluster id of an instance without cluster tags; the test names it and
\* does not fix its text
defaultClusterID == << "defaultClusterID" >>

\* the first key, in the order the range over the map visits them, that has
\* the prefix and the value owned
RECURSIVE FirstOwned(_, _)
FirstOwned(tags, order) ==
    IF order = <<>> THEN <<>>
    ELSE IF /\ HasPrefix(Head(order), clusterIDTagPrefix)
            /\ tags[Head(order)] = resourceLifecycleOwned
         THEN << Head(order) >>
         ELSE FirstOwned(tags, Tail(order))

clusterID_LegacyFirst(tags, order) ==
    IF kubernetesClusterLegacyTag \in DOMAIN tags
    THEN tags[kubernetesClusterLegacyTag]
    ELSE IF FirstOwned(tags, order) # <<>>
         THEN TrimPrefix(FirstOwned(tags, order)[1], clusterIDTagPrefix)
         ELSE defaultClusterID

\* instanceDetails.clusterID: the id of an owned cluster tag, else the value
\* of the legacy tag, else the default
clusterID(tags, order) ==
    IF FirstOwned(tags, order) # <<>>
    THEN TrimPrefix(FirstOwned(tags, order)[1], clusterIDTagPrefix)
    ELSE IF kubernetesClusterLegacyTag \in DOMAIN tags
         THEN tags[kubernetesClusterLegacyTag]
         ELSE defaultClusterID

\* the tag keys and values of the instances
InstanceTagKeys ==
    { nameTag, kubernetesClusterLegacyTag,
      clusterIDTagPrefix \o << "zbr" >>, clusterIDTagPrefix \o << "baz" >> }

InstanceTagValues == { resourceLifecycleOwned, << "shared" >>, << "bar" >> }

InstanceTagMaps ==
    UNION { [keys -> InstanceTagValues] : keys \in SUBSET InstanceTagKeys }

\* the map without one key
Without(m, key) == [k \in DOMAIN m \ { key } |-> m[k]]

InitClusterID ==
    /\ cfStacks = <<>>
    /\ found = [op |-> "none"]
    /\ StackIdle /\ CFIdle /\ AdapterIdle

DoClusterID ==
    /\ found.op = "none"
    /\ \E tags \in InstanceTagMaps :
         \E order \in Orders(tags) :
           found' = [op |-> "clusterID", tags |-> tags, order |-> order,
                     got |-> clusterID(tags, order),
                     unnamed |-> clusterID(Without(tags, nameTag),
                                   SelectSeq(order, LAMBDA k : k # nameTag))]
    /\ UNCHANGED cfStacks
    /\ UNCHANGED notTagVars

NextClusterID ==
    \/ DoClusterID

SpecClusterID == InitClusterID /\ [][NextClusterID]_vars

GotClusterID == found.op = "clusterID"

\* the ids of the owned cluster tags of the instance
OwnedIDs ==
    { TrimPrefix(k, clusterIDTagPrefix) :
        k \in { t \in DOMAIN found.tags :
                  /\ HasPrefix(t, clusterIDTagPrefix)
                  /\ found.tags[t] = << "owned" >> } }

\* C26: clusterID() is the id of an owned kubernetes.io/cluster/<id> tag
\* when there is one, also next to a legacy tag; else the value of the
\* legacy KubernetesCluster tag when there is one; else the default, as for
\* the empty map; and the Name tag does not change it
C26_ClusterID ==
    GotClusterID =>
        /\ IF OwnedIDs # {}
           THEN found.got \in OwnedIDs
           ELSE IF << "KubernetesCluster" >> \in DOMAIN found.tags
                THEN found.got = found.tags[<< "KubernetesCluster" >>]
                ELSE found.got = defaultClusterID
        /\ found.unnamed = found.got

\* the instance has a Name tag, a legacy tag bar and the owned tag of baz,
\* and its cluster id is baz
C26_Witness ==
    /\ GotClusterID
    /\ DOMAIN found.tags = { << "Name" >>, << "KubernetesCluster" >>,
                             << "kubernetes.io/cluster", "/", "baz" >> }
    /\ found.tags[<< "KubernetesCluster" >>] = << "bar" >>
    /\ found.tags[<< "kubernetes.io/cluster", "/", "baz" >>] = << "owned" >>
    /\ found.got = << "baz" >>

(***************************************************************************)
(* The termination protection over the life of the stacks (SpecLifecycle). *)
(***************************************************************************)

\* the specs of one stack, with and without termination protection
LifecycleSpecs ==
    { [StackSpec(p, <<>>, [arn \in {} |-> ZeroTime], <<>>, [k \in {} |-> <<>>])
         EXCEPT !.stackTerminationProtection = b] :
        p \in { q \in PolicyFields : q.scheme = "internal" /\ ~q.http2 },
        b \in BOOLEAN }

InitLifecycle == TagsIdle /\ StackIdle /\ CFIdle /\ AdapterIdle

\* createStack of any spec at any time; CloudFormation refuses to create a
\* stack of a name it has
LifeCreateStack ==
    /\ \E spec \in LifecycleSpecs, templateErr \in BOOLEAN :
         \E apiErr \in { NoError, ErrInternal } :
           /\ (~templateErr /\ cfLive[NumberOf(spec.name)]) => apiErr # NoError
           /\ \E order \in Orders(MergedTags(spec)) :
                CallCreateStack(spec, order, templateErr, apiErr)
           /\ found' = [op |-> "createStack", spec |-> spec,
                        templateErr |-> templateErr]
    /\ UNCHANGED <<stackVars, adapterVars>>

\* updateStack of any spec at any time; CloudFormation refuses to change a
\* stack it does not have
LifeUpdateStack ==
    /\ \E spec \in LifecycleSpecs, templateErr \in BOOLEAN :
         \E utpErr \in ApiErrors \cup {Nil}, updErr \in ApiErrors \cup {Nil} :
           /\ (templateErr \/ ~spec.stackTerminationProtection) => utpErr = Nil
           /\ (templateErr \/ utpErr # Nil) => updErr = Nil
           /\ (~templateErr /\ ~cfLive[NumberOf(spec.name)]) =>
                  IF spec.stackTerminationProtection THEN utpErr # Nil
                  ELSE updErr # Nil
           /\ \E order \in Orders(MergedTags(spec)) :
                CallUpdateStack(spec, order, templateErr, utpErr, updErr)
           /\ found' = [op |-> "updateStack", spec |-> spec,
                        templateErr |-> templateErr]
    /\ UNCHANGED <<stackVars, adapterVars>>

NextLifecycle ==
    \/ LifeCreateStack
    \/ LifeUpdateStack
    \/ DoDeleteStack

SpecLifecycle == InitLifecycle /\ [][NextLifecycle]_vars

\* the requests of the call that has just returned
Issued(api) ==
    { i \in DOMAIN call.requests : call.requests[i].api = api }

\* an updateStack has returned: no request of it clears the protection; with
\* the flag of its spec set and a template, its first request enables the
\* protection, and no UpdateStack follows a refused one
UpdateKeepsProtection ==
    call.op = "updateStack" =>
        /\ \A i \in Issued("UpdateTerminationProtection") :
             call.requests[i].EnableTerminationProtection
        /\ (found.spec.stackTerminationProtection /\ ~found.templateErr) =>
             /\ Issued("UpdateTerminationProtection") = { 1 }
             /\ Issued("UpdateStack") \subseteq { 2 }
             /\ call.requests[1].err # Nil => Issued("UpdateStack") = {}
        /\ ~found.spec.stackTerminationProtection =>
             Issued("UpdateTerminationProtection") = {}

\* C28: updateStack never sends UpdateTerminationProtection with false; with
\* the flag set it sends the enabling request first and no UpdateStack when
\* that request fails; and the protection of a stack goes off in no step
\* other than a deleteStack of that stack
C28_ProtectionKept ==
    [][/\ UpdateKeepsProtection'
       /\ \A n \in StackNames :
            (cfProt[n] /\ ~cfProt'[n]) =>
                (call'.op = "deleteStack" /\ call'.name = n)]_vars

\* a protected, live stack has just been updated from a spec whose flag is
\* off, the update went through, and the stack is still protected
C28_Witness ==
    /\ call.op = "updateStack"
    /\ ~found.spec.stackTerminationProtection
    /\ Issued("UpdateStack") # {}
    /\ call.ret = Nil
    /\ cfLive[call.name] /\ cfProt[call.name]

(***************************************************************************)
(* createStack and updateStack of one spec (SpecResend).                   *)
(***************************************************************************)

\* the multiset of the elements of a sequence
BagOfSeq(seq) ==
    [x \in Range(seq) |-> Cardinality({ i \in DOMAIN seq : seq[i] = x })]

\* the inputs of the UpdateStack requests of the call that has returned
Updates ==
    { call.requests[i].input :
        i \in { j \in DOMAIN call.requests :
                  call.requests[j].api = "UpdateStack" } }

\* C29: the parameters and the tags that updateStack sends for a spec are,
\* as multisets of (key, value), those that createStack sent for it
C29_SameParametersAndTags ==
    (found.op = "updateStack" /\ call.op = "updateStack") =>
        \A input \in Updates :
            /\ BagOfSeq(input.Parameters) = BagOfSeq(found.created.Parameters)
            /\ BagOfSeq(input.Tags) = BagOfSeq(found.created.Tags)

\* a stack with an owner, a certificate and an extra listener was created
\* and updated, and the update sent its tags in another order
C29_Witness ==
    /\ found.op = "updateStack" /\ call.op = "updateStack"
    /\ found.spec.ownerIngress # <<>>
    /\ DOMAIN found.spec.certificateARNs # {}
    /\ Len(found.spec.extraListeners) > 0
    /\ \E input \in Updates :
         /\ input.Tags # found.created.Tags
         /\ \E i \in DOMAIN input.Tags : input.Tags[i].Key = ingressOwnerTag
         /\ \E i \in DOMAIN input.Tags : input.Tags[i].Key = extraListenersTag

(***************************************************************************)
(* The listing of the managed stacks is all or nothing (SpecManaged).      *)
(***************************************************************************)

\* the values of the extra-listeners tags of the stack
ListenerValues(s) ==
    { s.Tags[i].Value :
        i \in { j \in DOMAIN s.Tags : s.Tags[j].Key = extraListenersTag } }

\* the value is base64 of a JSON list
IsListValue(v) == Len(v) = 2 /\ v[1] = "base64"

\* the value is base64 of the JSON text null
IsNullValue(v) == Len(v) = 3 /\ v[1] = "base64" /\ v[3] = "null"

\* the managed stacks of the listing
Managed == SelectSeq(AllStacks, LAMBDA s : ByCreator(s))

\* C30 as the specification has it: when a managed stack has an
\* extra-listeners tag that is no JSON list, or the listing fails, the
\* result is an error and no record; otherwise one record per managed stack
C30_AsStated ==
    FoundManaged =>
        IF \/ found.apiErr # NoError
           \/ \E i \in DOMAIN Managed :
                \E v \in ListenerValues(Managed[i]) : ~IsListValue(v)
        THEN found.result.nil /\ found.result.err # ""
             /\ found.result.stacks = <<>>
        ELSE /\ ~found.result.nil /\ found.result.err = ""
             /\ ResultNames = NamesOf(Managed)

\* C30: when a managed stack on any page has an extra-listeners tag that is
\* neither a JSON list nor the JSON text null, or the listing fails, the
\* result is an error and no record, not even of the well-formed stacks;
\* otherwise it is one record per managed stack, a stack whose tag holds
\* null among them
C30_AllOrNothing ==
    FoundManaged =>
        IF \/ found.apiErr # NoError
           \/ \E i \in DOMAIN Managed :
                \E v \in ListenerValues(Managed[i]) :
                    ~IsListValue(v) /\ ~IsNullValue(v)
        THEN found.result.nil /\ found.result.err # ""
             /\ found.result.stacks = <<>>
        ELSE /\ ~found.result.nil /\ found.result.err = ""
             /\ ResultNames = NamesOf(Managed)

\* the listing went through, a well-formed managed stack is on the first
\* page and a managed stack with a tag that does not decode on the second,
\* and the result is an error without records
C30_Witness ==
    /\ FoundManaged
    /\ found.apiErr = NoError
    /\ Len(cfStacks) = 2 /\ Len(cfStacks[1]) = 1 /\ Len(cfStacks[2]) = 1
    /\ ByCreator(cfStacks[1][1]) /\ ListenerValues(cfStacks[1][1]) = {}
    /\ ByCreator(cfStacks[2][1])
    /\ ListenerValues(cfStacks[2][1]) = { << "not base64" >> }
    /\ found.result.nil /\ found.result.stacks = <<>>
    /\ found.result.err = "mapToManagedStacks returned errors"


====
